---- MODULE Spec2Model ----
(***************************************************************************)
(* react-scroll-media: the sequence resolver (src/src/types.ts, the        *)
(* hardened resolver that starts at line 131), its manifest cache, the     *)
(* ImageController (src/src/controllers/imageController.ts), the Scheduler *)
(* (src/src/core/loopManager.ts) and the Timeline                          *)
(* (src/src/core/scrollTimeline.ts).                                       *)
(*                                                                         *)
(* A JavaScript string is a sequence of one-character strings.  A promise  *)
(* is an index into a table of promise records.                            *)
(***************************************************************************)
EXTENDS Integers, Sequences, FiniteSets, TLC

(***************************************************************************)
(* Bounds of the model                                                     *)
(***************************************************************************)
\* longest manual frame list that is enumerated
MaxManualLen == 3

\* longest frame list a controller is constructed with
MaxCtlFrames == 4

\* update calls made on one controller
MaxUpdates == 2

\* setCanvasSize calls on one controller
MaxResizes == 1

\* plans handed to callbacks in one run of the Scheduler
MaxArms == 1

\* manifest promises created in one run of the small manifest specification
MaxManifestPromises == 3

\* distinct https manifest URLs resolved while the cache is filled
MaxFillUrls == 51

(***************************************************************************)
(* Characters and string helpers (String.prototype / Number.prototype)     *)
(***************************************************************************)
Digits == <<"0", "1", "2", "3", "4", "5", "6", "7", "8", "9">>

DigitChars == {Digits[i] : i \in 1..10}

DigitVal(c) == (CHOOSE i \in 1..10 : Digits[i] = c) - 1

AlphaChars ==
  {"a", "b", "c", "d", "e", "f", "g", "h", "i", "j", "k", "l", "m", "n", "o",
   "p", "q", "r", "s", "t", "u", "v", "w", "x", "y", "z"}

\* characters String.prototype.trim removes
TrimChars == {" ", "\t", "\n", "\r", "\f"}

\* characters the URL parser strips from both ends: C0 controls and space
\* ("SOH" stands for U+0001, a control character that trim() keeps)
C0SpaceChars == {" ", "\t", "\n", "\r", "\f", "SOH"}

\* characters the URL parser deletes wherever they stand
TabNewlineChars == {"\t", "\n", "\r"}

SlashChars == {"/", "\\"}

Min(S) == CHOOSE x \in S : \A y \in S : x <= y

Max(S) == CHOOSE x \in S : \A y \in S : x >= y

StartsWith(s, p) == Len(s) >= Len(p) /\ SubSeq(s, 1, Len(p)) = p

StripChars(s, cs) ==
  LET keep == {i \in 1..Len(s) : s[i] \notin cs}
  IN  IF keep = {} THEN <<>> ELSE SubSeq(s, Min(keep), Max(keep))

Trim(s) == StripChars(s, TrimChars)

RECURSIVE NatToStr(_)
NatToStr(n) ==
  IF n < 10 THEN <<Digits[n + 1]>>
  ELSE NatToStr(n \div 10) \o <<Digits[(n % 10) + 1]>>

\* Number.prototype.toString for an integer
NumToString(i) == IF i < 0 THEN <<"-">> \o NatToStr(-i) ELSE NatToStr(i)

\* String.prototype.padStart(len, '0')
PadStart(s, len) ==
  IF Len(s) >= len THEN s ELSE [i \in 1..(len - Len(s)) |-> "0"] \o s

\* String.prototype.replace(needle, repl) with a string needle: the first
\* occurrence only
ReplaceFirst(s, needle, repl) ==
  LET hits == {i \in 1..(Len(s) - Len(needle) + 1) :
                 SubSeq(s, i, i + Len(needle) - 1) = needle}
  IN  IF hits = {} THEN s
      ELSE LET i == Min(hits)
           IN  SubSeq(s, 1, i - 1) \o repl \o SubSeq(s, i + Len(needle), Len(s))

RECURSIVE ParseDigits(_)
ParseDigits(ds) ==
  IF ds = <<>> THEN 0
  ELSE 10 * ParseDigits(SubSeq(ds, 1, Len(ds) - 1)) + DigitVal(ds[Len(ds)])

\* filename.match(/\d+/): the first run of decimal digits, <<>> when none
FirstDigitRun(s) ==
  LET ds == {i \in 1..Len(s) : s[i] \in DigitChars}
  IN  IF ds = {} THEN <<>>
      ELSE LET a == Min(ds)
               b == Max({j \in a..Len(s) : \A k \in a..j : s[k] \in DigitChars})
           IN  SubSeq(s, a, b)

HasDigit(s) == \E i \in 1..Len(s) : s[i] \in DigitChars

(***************************************************************************)
(* URL.protocol of new URL(input, 'https://localhost') (types.ts:227).     *)
(* The parser is the host's; it is modelled after the WHATWG URL standard  *)
(* as far as the protocol and a parse failure are concerned: leading and   *)
(* trailing C0 controls and spaces are stripped, tabs and newlines are     *)
(* deleted, a scheme is a letter followed by letters, digits, + - . up to  *)
(* the first colon, an input without a scheme is resolved against the      *)
(* https base, and a special scheme with an empty host fails.  <<>> stands *)
(* for the TypeError of a failed parse.                                    *)
(***************************************************************************)
SchemeChars == AlphaChars \cup DigitChars \cup {"+", "-", "."}

HttpScheme == <<"h", "t", "t", "p">>

HttpsScheme == <<"h", "t", "t", "p", "s">>

SpecialSchemes ==
  {HttpScheme, HttpsScheme, <<"f", "t", "p">>, <<"w", "s">>, <<"w", "s", "s">>}

SchemeLen(s) ==
  LET colons == {i \in 1..Len(s) : s[i] = ":"}
  IN  IF colons = {} THEN 0
      ELSE LET c == Min(colons)
           IN  IF /\ c > 1
                  /\ s[1] \in AlphaChars
                  /\ \A j \in 2..(c - 1) : s[j] \in SchemeChars
               THEN c - 1
               ELSE 0

SkipSlashes(s) ==
  LET rest == {i \in 1..Len(s) : s[i] \notin SlashChars}
  IN  IF rest = {} THEN <<>> ELSE SubSeq(s, Min(rest), Len(s))

HostOf(s) ==
  LET stops == {i \in 1..Len(s) : s[i] \in {"/", "\\", "?", "#"}}
  IN  IF stops = {} THEN s ELSE SubSeq(s, 1, Min(stops) - 1)

HostOk(h) == h # <<>> /\ \A i \in 1..Len(h) : h[i] # " "

TwoSlashes(s) == Len(s) >= 2 /\ s[1] \in SlashChars /\ s[2] \in SlashChars

URLProtocol(input) ==
  LET s == SelectSeq(StripChars(input, C0SpaceChars),
                     LAMBDA c : c \notin TabNewlineChars)
      n == SchemeLen(s)
      scheme == SubSeq(s, 1, n)
      rest == SubSeq(s, n + 2, Len(s))
      authority(r) ==
        IF HostOk(HostOf(SkipSlashes(r))) THEN scheme \o <<":">> ELSE <<>>
  IN  IF n = 0
      THEN IF TwoSlashes(s)
           THEN IF HostOk(HostOf(SkipSlashes(s)))
                THEN HttpsScheme \o <<":">> ELSE <<>>
           ELSE HttpsScheme \o <<":">>
      ELSE IF scheme \in SpecialSchemes
           THEN IF scheme = HttpsScheme /\ ~TwoSlashes(rest)
                THEN scheme \o <<":">>
                ELSE authority(rest)
           ELSE scheme \o <<":">>

(***************************************************************************)
(* The sequence resolver, src/src/types.ts lines 131-447                   *)
(***************************************************************************)
ALLOWED_PROTOCOLS == {HttpScheme \o <<":">>, HttpsScheme \o <<":">>}

DEFAULT_MAX_FRAMES == 2000

ABSOLUTE_MAX_FRAMES == 8000

\* process.env.REACT_SCROLL_MEDIA_MAX_FRAMES as Number() sees it: absent
\* (NaN), not a number (NaN), a fraction, or the integer v
EnvAbsent == [t |-> "absent", v |-> 0]

EnvNaN == [t |-> "nan", v |-> 0]

EnvFraction == [t |-> "frac", v |-> 2]

EnvInt(n) == [t |-> "int", v |-> n]

\* GetMaxFrames with a ceiling that is one too high
GetMaxFramesLooseCeiling(env) ==
  IF env.t = "int" /\ env.v > 0
  THEN IF env.v <= ABSOLUTE_MAX_FRAMES THEN env.v
       ELSE ABSOLUTE_MAX_FRAMES + 1
  ELSE DEFAULT_MAX_FRAMES

GetMaxFrames(env) ==
  IF env.t = "int" /\ env.v > 0
  THEN IF env.v < ABSOLUTE_MAX_FRAMES THEN env.v ELSE ABSOLUTE_MAX_FRAMES
  ELSE DEFAULT_MAX_FRAMES

ValidateFrameUrl(url) ==
  LET trimmed == Trim(url)
  IN  IF trimmed = <<>> THEN FALSE
      ELSE IF StartsWith(trimmed, <<"/", "/">>) THEN FALSE
      ELSE URLProtocol(trimmed) \in ALLOWED_PROTOCOLS

SanitizeFrameUrls(frames) == SelectSeq(frames, ValidateFrameUrl)

\* ExtractNumber with "no number" read as 0 instead of -1
ExtractNumberZero(filename) ==
  IF HasDigit(filename) THEN ParseDigits(FirstDigitRun(filename)) ELSE 0

ExtractNumber(filename) ==
  IF HasDigit(filename) THEN ParseDigits(FirstDigitRun(filename)) ELSE -1

\* the comparator handed to Array.prototype.sort
CompareFrames(a, b) == ExtractNumber(a) - ExtractNumber(b)

\* Array.prototype.sort is stable: an element is placed before the first
\* element that compares greater
InsertFrame(sorted, x) ==
  LET later == {i \in 1..Len(sorted) : CompareFrames(sorted[i], x) > 0}
  IN  IF later = {} THEN Append(sorted, x)
      ELSE SubSeq(sorted, 1, Min(later) - 1) \o <<x>>
             \o SubSeq(sorted, Min(later), Len(sorted))

RECURSIVE SortFrames(_)
SortFrames(s) ==
  IF s = <<>> THEN <<>>
  ELSE InsertFrame(SortFrames(SubSeq(s, 1, Len(s) - 1)), s[Len(s)])

\* what a call returns or throws; generated counts the frames the call built
Resolved(frames, generated) ==
  [ok |-> TRUE, err |-> "", frames |-> frames, frameCount |-> Len(frames),
   generated |-> generated]

Thrown(err) ==
  [ok |-> FALSE, err |-> err, frames |-> <<>>, frameCount |-> 0,
   generated |-> 0]

\* ProcessManualFrames with the cap compared one too high
ProcessManualFramesOffByOne(frames, env) ==
  LET safe == SanitizeFrameUrls(frames)
  IN  IF Len(safe) > GetMaxFrames(env) + 1 THEN Thrown("TooManyFrames")
      ELSE Resolved(SortFrames(safe), 0)

\* ProcessManualFrames that throws on the first unsafe URL instead of
\* dropping it
ProcessManualFramesStrict(frames, env) ==
  LET safe == SanitizeFrameUrls(frames)
  IN  IF Len(safe) < Len(frames) THEN Thrown("DisallowedProtocol")
      ELSE IF Len(safe) > GetMaxFrames(env) THEN Thrown("TooManyFrames")
      ELSE Resolved(SortFrames(safe), 0)

ProcessManualFrames(frames, env) ==
  LET safe == SanitizeFrameUrls(frames)
  IN  IF Len(safe) > GetMaxFrames(env) THEN Thrown("TooManyFrames")
      ELSE Resolved(SortFrames(safe), 0)

IndexPlaceholder == <<"{", "i", "n", "d", "e", "x", "}">>

\* PatternFrame that ignores pad
PatternFrameUnpadded(pattern, i, pad) ==
  ReplaceFirst(pattern, IndexPlaceholder, NumToString(i))

PatternFrame(pattern, i, pad) ==
  LET indexStr == IF pad # 0 THEN PadStart(NumToString(i), pad)
                  ELSE NumToString(i)
  IN  ReplaceFirst(pattern, IndexPlaceholder, indexStr)

\* ProcessPatternMode that generates the frames and checks the cap afterwards
ProcessPatternModeLate(pattern, start, end, pad, env) ==
  IF ~ValidateFrameUrl(pattern) THEN Thrown("DisallowedProtocol")
  ELSE LET n == IF end >= start THEN end - start + 1 ELSE 0
       IN  IF n > GetMaxFrames(env)
           THEN [Thrown("TooManyFrames") EXCEPT !.generated = n]
           ELSE Resolved([k \in 1..n |->
                            PatternFrame(pattern, start + k - 1, pad)], n)

ProcessPatternMode(pattern, start, end, pad, env) ==
  IF ~ValidateFrameUrl(pattern) THEN Thrown("DisallowedProtocol")
  ELSE IF end - start + 1 > GetMaxFrames(env) THEN Thrown("TooManyFrames")
  ELSE LET n == IF end >= start THEN end - start + 1 ELSE 0
           frames == [k \in 1..n |-> PatternFrame(pattern, start + k - 1, pad)]
       IN  Resolved(frames, n)

(***************************************************************************)
(* A manifest response.  The parsed JSON document is a record: json is the *)
(* kind of the document ("syntax" when JSON.parse throws), and every       *)
(* member carries a tag for its JSON type next to its value.               *)
(***************************************************************************)
MANIFEST_FETCH_TIMEOUT_MS == 10000

MANIFEST_MAX_SIZE_BYTES == 1048576

MANIFEST_CACHE_MAX_ENTRIES == 50

ManifestData(json, fT, f, fAllStr, pT, p, eT, e, sT, s, padT, pad) ==
  [json |-> json, framesT |-> fT, frames |-> f, framesAllStr |-> fAllStr,
   patternT |-> pT, pattern |-> p, endT |-> eT, end |-> e,
   startT |-> sT, start |-> s, padT |-> padT, pad |-> pad]

\* a document that is not an object with frames or pattern
OtherBody(json) ==
  ManifestData(json, "undef", <<>>, TRUE, "undef", <<>>,
               "undef", 0, "undef", 0, "undef", 0)

\* { "frames": [...] }; allStr is FALSE when an entry is not a string
FramesBody(frames, allStr) ==
  ManifestData("object", "array", frames, allStr, "undef", <<>>,
               "undef", 0, "undef", 0, "undef", 0)

\* { "pattern": ..., "start": ..., "end": ..., "pad": ... }
PatternBody(patternT, pattern, endT, end, startT, start, padT, pad) ==
  ManifestData("object", "undef", <<>>, TRUE, patternT, pattern,
               endT, end, startT, start, padT, pad)

\* a body of ascii one-byte characters and two two-byte (UTF-8) characters
Text(ascii, two) == [ascii |-> ascii, two |-> two]

Response(ok, ctype, size, data) ==
  [ok |-> ok, ctype |-> ctype, size |-> size, data |-> data]

\* ParseManifest in which a missing start defaults to 0
ParseManifestStartZero(data, env) ==
  IF data.json = "syntax" THEN Thrown("JsonSyntax")
  ELSE IF data.json # "object" THEN Thrown("NotObject")
  ELSE IF data.framesT = "array"
  THEN IF ~data.framesAllStr THEN Thrown("FramesNotStrings")
       ELSE ProcessManualFrames(data.frames, env)
  ELSE IF /\ \/ data.patternT = "str" /\ data.pattern # <<>>
             \/ data.patternT = "num"
          /\ data.endT \in {"int", "frac"}
  THEN IF data.patternT # "str" THEN Thrown("PatternNotString")
       ELSE IF data.endT # "int" \/ data.end < 1 THEN Thrown("BadEnd")
       ELSE LET startT == IF data.startT \in {"undef", "null"}
                          THEN "int" ELSE data.startT
                start == IF data.startT \in {"undef", "null"}
                         THEN 0 ELSE data.start
            IN  IF startT # "int" \/ start < 1 THEN Thrown("BadStart")
                ELSE IF /\ data.padT # "undef"
                        /\ (data.padT # "int" \/ data.pad < 1)
                THEN Thrown("BadPad")
                ELSE ProcessPatternMode(data.pattern, start, data.end,
                       IF data.padT = "undef" THEN 0 ELSE data.pad, env)
  ELSE Thrown("MissingConfig")

\* types.ts:373-407: JSON.parse and the validation of the document (an array
\* is an object without frames and pattern)
ParseManifest(data, env) ==
  IF data.json = "syntax" THEN Thrown("JsonSyntax")
  ELSE IF data.json \notin {"object", "array"} THEN Thrown("NotObject")
  ELSE IF data.framesT = "array"
  THEN IF ~data.framesAllStr THEN Thrown("FramesNotStrings")
       ELSE ProcessManualFrames(data.frames, env)
  ELSE IF /\ \/ data.patternT = "str" /\ data.pattern # <<>>
             \/ data.patternT = "num"
          /\ data.endT \in {"int", "frac"}
  THEN IF data.patternT # "str" THEN Thrown("PatternNotString")
       ELSE IF data.endT # "int" \/ data.end < 1 THEN Thrown("BadEnd")
       ELSE LET startT == IF data.startT \in {"undef", "null"}
                          THEN "int" ELSE data.startT
                start == IF data.startT \in {"undef", "null"}
                         THEN 1 ELSE data.start
            IN  IF startT # "int" \/ start < 1 THEN Thrown("BadStart")
                ELSE IF /\ data.padT # "undef"
                        /\ (data.padT # "int" \/ data.pad < 1)
                THEN Thrown("BadPad")
                ELSE ProcessPatternMode(data.pattern, start, data.end,
                       IF data.padT = "undef" THEN 0 ELSE data.pad, env)
  ELSE Thrown("MissingConfig")

\* CheckResponse that looks at the status only
CheckResponseStatusOnly(resp) ==
  IF ~resp.ok THEN "HttpStatus" ELSE ""

\* types.ts:357-365: the checks on the response before its body is read;
\* ctype is "json" when the content-type header includes application/json,
\* "absent" when there is no such header
CheckResponse(resp) ==
  IF ~resp.ok THEN "HttpStatus"
  ELSE IF resp.ctype # "json" THEN "ContentType"
  ELSE ""

\* types.ts:368-407: the body is read, measured, parsed and validated.
\* res.text() decodes the bytes; text.length counts UTF-16 code units, one
\* for each character of either kind
ProcessBody(resp, env) ==
  IF resp.size.ascii + resp.size.two > MANIFEST_MAX_SIZE_BYTES
  THEN Thrown("TooLarge")
  ELSE ParseManifest(resp.data, env)

(***************************************************************************)
(* Inputs                                                                  *)
(***************************************************************************)
U_a1 == <<"a", "1", ".", "j", "p", "g">>

U_a2 == <<"a", "2", ".", "j", "p", "g">>

U_a10 == <<"a", "1", "0", ".", "j", "p", "g">>

U_b1 == <<"b", "1", ".", "j", "p", "g">>

U_a0 == <<"a", "0", ".", "j", "p", "g">>

U_evil == <<"/", "/", "e", "v", "i", "l", ".", "c", "o", "m", "/", "x", ".",
            "j", "p", "g">>

U_spevil == <<" ", "/", "/", "e", ".", "c", "o", "/", "3", ".", "j", "p", "g">>

U_js == <<"j", "a", "v", "a", "s", "c", "r", "i", "p", "t", ":", "a", "l",
          "e", "r", "t", "(", "1", ")">>

U_ok == <<"h", "t", "t", "p", "s", ":", "/", "/", "o", "k", ".", "e", "x",
          "a", "m", "p", "l", "e", "/", "x", ".", "j", "p", "g">>

U_rel == <<"/", "r", "e", "l", "a", "t", "i", "v", "e", "/", "x", ".", "j",
           "p", "g">>

FramePool == {U_a1, U_a2, U_a10, U_b1, U_a0, U_evil, U_spevil, U_js, U_ok,
              U_rel, <<>>}

T_f == <<"/", "f", "_">> \o IndexPlaceholder \o <<".", "j", "p", "g">>

T_scheme == <<"a">> \o IndexPlaceholder \o <<":", "x">>

T_evil == <<"/", "/", "e", ".", "c", "o", "/">> \o IndexPlaceholder

T_js == <<"j", "a", "v", "a", "s", "c", "r", "i", "p", "t", ":">>
          \o IndexPlaceholder

T_static == <<"/", "s", ".", "j", "p", "g">>

T_http == <<"h", "t", "t", "p", ":", "/", "/", "h", "/">> \o IndexPlaceholder

TemplatePool == {T_f, T_scheme, T_evil, T_js, T_static, T_http}

BoundedSeq(S, n) == UNION {[1..k -> S] : k \in 0..n}

EnvPool == {EnvAbsent, EnvNaN, EnvFraction, EnvInt(-5), EnvInt(0), EnvInt(2),
            EnvInt(3), EnvInt(9000)}

(***************************************************************************)
(* State                                                                   *)
(***************************************************************************)
VARIABLES
  resSource,   \* resolver: the source descriptor handed to resolveSequence
  resEnv,      \* resolver: process.env.REACT_SCROLL_MEDIA_MAX_FRAMES
  resOut,      \* resolver: what the call returned or threw
  resPc,       \* resolver: "call" before the call, "done" after it
  frames,            \* controller: config.frames
  strategy,          \* controller: "eager" or "lazy"
  bufferSize,        \* controller: config.bufferSize || 10
  imageCache,        \* controller: Map src -> image (the load that made it)
  loadingPromises,   \* controller: Map src -> promise (a load)
  currentFrameIndex, \* controller: -1 until the first update
  isDestroyed,       \* controller
  loads,             \* every loadImage call: its src and how far it got
  thens,             \* callbacks drawFrame attached to promises, in order
  canvas,            \* index of the frame drawn on the surface, -1 if clear
  paints,            \* number of drawImage calls so far
  updates,           \* number of update calls so far
  updateLog,         \* the progress arguments of the update calls, in order
  canvasSize,        \* controller: <<canvas.width, canvas.height>>
  resizes,           \* number of setCanvasSize calls so far
  manifestCache,     \* resolver: Map url -> promise, in insertion order
  promises,          \* every promise processManifestMode created
  fetchLog,          \* the URLs fetch() was called with, in order
  lastCall,          \* the last processManifestMode call and what it returned
  callbacks,         \* Scheduler: the Set of registered callbacks
  rafId,             \* Scheduler: the id of its last request, 0 for null
  isActive,          \* Scheduler
  rafPending,        \* host: the animation frame requests not yet run
  hasWindow,         \* host: typeof window !== 'undefined'
  plans,             \* what each callback of the caller's does when invoked
  arms,              \* number of plans handed out so far
  timelines,         \* the fields of each ScrollTimeline
  handles,           \* the unsubscribe functions subscribe has returned
  geometry,          \* host: the live geometry of each Timeline's container
  innerHeight,       \* host: window.innerHeight
  roPending,         \* host: ResizeObserver notifications not yet delivered
  resizePending,     \* host: a window resize event not yet dispatched
  loopCalls,         \* invocations of each Scheduler callback, last frame
  notified,          \* invocations of subscribers during the last operation
  engine,            \* the fields of the EventScrollEngine
  engRequests,       \* host: the engine's frame requests not yet run
  engDelivered,      \* the progress the engine's callback was last given
  engPhase           \* the engine's start and stop calls so far

resVars == <<resSource, resEnv, resOut, resPc>>

ctlVars == <<frames, strategy, bufferSize, imageCache, loadingPromises,
             currentFrameIndex, isDestroyed, loads, thens, canvas, paints,
             updates, updateLog, canvasSize, resizes>>

manVars == <<manifestCache, promises, fetchLog, lastCall>>

loopVars == <<callbacks, rafId, isActive, rafPending, hasWindow, plans, arms,
              timelines, handles, geometry, innerHeight, roPending,
              resizePending, loopCalls, notified>>

engVars == <<engine, engRequests, engDelivered, engPhase>>

vars == <<resVars, ctlVars, manVars, loopVars, engVars>>

(***************************************************************************)
(* The Scheduler (ScrollLoopManager, src/src/core/loopManager.ts) and the  *)
(* Timeline (ScrollTimeline, src/src/core/scrollTimeline.ts).              *)
(*                                                                         *)
(* A JavaScript Set is a sequence in insertion order; a deleted entry      *)
(* leaves a Hole behind until the running operation has returned, so that  *)
(* a forEach in progress keeps its position, visits what is added behind   *)
(* it and skips what is deleted ahead of it.  The calls an operation makes *)
(* are composed on a record W of the mutable state; a callback handed in   *)
(* by the caller does what its plan says, once, when it is invoked.        *)
(* Progress values are integers, in millionths.                            *)
(***************************************************************************)
Hole == "hole"

SetHas(set, x) == \E i \in 1..Len(set) : set[i] = x

SetAdd(set, x) == IF SetHas(set, x) THEN set ELSE Append(set, x)

SetDelete(set, x) == [i \in 1..Len(set) |-> IF set[i] = x THEN Hole ELSE set[i]]

SetClear(set) == [i \in 1..Len(set) |-> Hole]

SetSize(set) == Cardinality({i \in 1..Len(set) : set[i] # Hole})

Compact(set) == SelectSeq(set, LAMBDA x : x # Hole)

Timelines == {"t1", "t2"}

\* callbacks registered with the Scheduler by other code than a Timeline
GenericCallbacks == {"g"}

LoopCallbacks == Timelines \cup GenericCallbacks

\* callbacks subscribed to Timelines, and the Timelines each subscribes to
Subscribers == {"a", "b"}

Subscriptions == {<<"t1", "a">>, <<"t1", "b">>, <<"t2", "b">>}

\* progress 1, in millionths
ProgressOne == 1000000

\* SCROLL_THRESHOLD = 0.0001, in millionths
SCROLL_THRESHOLD == 100

\* the record of the mutable state an operation works on
World ==
  [callbacks |-> callbacks, rafId |-> rafId, isActive |-> isActive,
   rafPending |-> rafPending, frameQueue |-> <<>>, plans |-> plans,
   timelines |-> timelines, handles |-> handles, thrown |-> FALSE,
   inFrame |-> FALSE, loopCalls |-> [cb \in LoopCallbacks |-> 0],
   notified |-> <<>>]

\* the id requestAnimationFrame returns: one that names no request the
\* Scheduler or the host still holds
NewRafId(W) ==
  Min({i \in 1..(Len(W.rafPending) + Len(W.frameQueue) + 2) :
         /\ i # W.rafId
         /\ \A k \in 1..Len(W.rafPending) : W.rafPending[k] # i
         /\ \A k \in 1..Len(W.frameQueue) : W.frameQueue[k] # i})

RequestAnimationFrame(W) ==
  LET id == NewRafId(W)
  IN  [W EXCEPT !.rafId = id, !.rafPending = Append(@, id)]

CancelAnimationFrame(W, id) ==
  [W EXCEPT !.rafPending = SelectSeq(@, LAMBDA x : x # id),
            !.frameQueue = SelectSeq(@, LAMBDA x : x # id)]

\* try { ... } catch (e) { }
Caught(W) == [W EXCEPT !.thrown = FALSE]

\* RoundMillionths that truncates instead of rounding
RoundMillionthsDown(n, d) == (ProgressOne * n) \div d

\* Math.round(clamped * 1000000) for clamped = n / d in [0, 1]
RoundMillionths(n, d) == (2 * ProgressOne * n + d) \div (2 * d)

GetScrollParent(g) == g.parent

UpdateCache(tl, g) ==
  IF ~tl.isLayoutDirty /\ tl.cachedRect.has THEN tl
  ELSE LET sp == IF tl.cachedScrollParent = "null" THEN GetScrollParent(g)
                 ELSE tl.cachedScrollParent
       IN  [tl EXCEPT
              !.cachedRect = [has |-> TRUE, height |-> g.height],
              !.cachedScrollParent = sp,
              !.cachedViewportHeight =
                 IF sp = "element" THEN g.parentHeight ELSE innerHeight,
              !.cachedOffsetTop = IF sp = "element" THEN g.parentTop ELSE 0,
              !.isLayoutDirty = FALSE]

\* calculateProgress: the timeline with its cache refreshed, and the progress
CalculateProgress(tl, g) ==
  LET tl1 == IF tl.isLayoutDirty \/ ~tl.cachedRect.has
             THEN UpdateCache(tl, g) ELSE tl
      height == IF tl1.cachedRect.has /\ tl1.cachedRect.height # 0
                THEN tl1.cachedRect.height ELSE g.height
      scrollDist == height - tl1.cachedViewportHeight
      relativeTop == g.top - tl1.cachedOffsetTop
  IN  [tl |-> tl1,
       progress |->
          IF scrollDist <= 0 THEN ProgressOne
          ELSE IF -relativeTop <= 0 THEN 0
          ELSE IF -relativeTop >= scrollDist THEN ProgressOne
          ELSE RoundMillionths(-relativeTop, scrollDist)]

Abs(x) == IF x < 0 THEN -x ELSE x

RECURSIVE LoopTick(_), LoopForEach(_, _), InvokeLoopCallback(_, _)
RECURSIVE LoopStart(_), LoopRegister(_, _), LoopUnregister(_, _)
RECURSIVE TimelineTick(_, _), NotifyForEach(_, _, _), InvokeSubscriber(_, _, _)
RECURSIVE TimelineSubscribe(_, _, _), TimelineUnsubscribe(_, _, _)
RECURSIVE TimelineDestroy(_, _), RunPlan(_, _, _), ApplyOp(_, _)

\* ScrollLoopManager.stop
LoopStop(W) ==
  LET W1 == [W EXCEPT !.isActive = FALSE]
  IN  IF W1.rafId # 0 /\ hasWindow
      THEN [CancelAnimationFrame(W1, W1.rafId) EXCEPT !.rafId = 0]
      ELSE W1

\* ScrollLoopManager.tick
LoopTick(W) ==
  IF ~W.isActive THEN W
  ELSE RequestAnimationFrame(LoopForEach(W, 1))

\* this.callbacks.forEach(cb => { try { cb() } catch (e) {} })
LoopForEach(W, i) ==
  IF i > Len(W.callbacks) THEN W
  ELSE IF W.callbacks[i] = Hole THEN LoopForEach(W, i + 1)
  ELSE LoopForEach(Caught(InvokeLoopCallback(W, W.callbacks[i])), i + 1)

\* cb(): the tick of a Timeline, or a callback of the caller's
InvokeLoopCallback(W, cb) ==
  LET W1 == IF W.inFrame THEN [W EXCEPT !.loopCalls[cb] = @ + 1] ELSE W
  IN  IF cb \in Timelines THEN TimelineTick(W1, cb)
      ELSE RunPlan([W1 EXCEPT !.plans[cb] = <<>>], W1.plans[cb], 1)

\* ScrollLoopManager.start
LoopStart(W) ==
  IF W.isActive THEN W
  ELSE LET W1 == [W EXCEPT !.isActive = TRUE]
       IN  IF hasWindow THEN LoopTick(W1) ELSE W1

\* ScrollLoopManager.register
LoopRegister(W, cb) ==
  IF SetHas(W.callbacks, cb) THEN W
  ELSE LET W1 == [W EXCEPT !.callbacks = Append(@, cb)]
       IN  IF SetSize(W1.callbacks) = 1 THEN LoopStart(W1) ELSE W1

\* LoopUnregister that stops the loop whenever a callback leaves
LoopUnregisterStops(W, cb) ==
  LoopStop([W EXCEPT !.callbacks = SetDelete(@, cb)])

\* ScrollLoopManager.unregister
LoopUnregister(W, cb) ==
  LET W1 == [W EXCEPT !.callbacks = SetDelete(@, cb)]
  IN  IF SetSize(W1.callbacks) = 0 THEN LoopStop(W1) ELSE W1

\* TimelineTick that notifies on every change of the progress
TimelineTickAnyChange(W, t) ==
  LET r == CalculateProgress(W.timelines[t], geometry[t])
      W1 == [W EXCEPT !.timelines[t] = r.tl]
  IN  IF r.progress # W1.timelines[t].currentProgress
      THEN NotifyForEach([W1 EXCEPT !.timelines[t].currentProgress =
                                      r.progress], t, 1)
      ELSE W1

\* ScrollTimeline.tick
TimelineTick(W, t) ==
  LET r == CalculateProgress(W.timelines[t], geometry[t])
      W1 == [W EXCEPT !.timelines[t] = r.tl]
  IN  IF Abs(r.progress - W1.timelines[t].currentProgress) > SCROLL_THRESHOLD
      THEN NotifyForEach([W1 EXCEPT !.timelines[t].currentProgress =
                                      r.progress], t, 1)
      ELSE W1

\* ScrollTimeline.notify
NotifyForEach(W, t, i) ==
  IF i > Len(W.timelines[t].subscribers) THEN W
  ELSE IF W.timelines[t].subscribers[i] = Hole THEN NotifyForEach(W, t, i + 1)
  ELSE NotifyForEach(
         Caught(InvokeSubscriber(W, t, W.timelines[t].subscribers[i])),
         t, i + 1)

\* cb(this.currentProgress)
InvokeSubscriber(W, t, s) ==
  LET W1 == [W EXCEPT
               !.notified = Append(@, [t |-> t, s |-> s,
                              progress |-> W.timelines[t].currentProgress]),
               !.plans[s] = <<>>]
  IN  RunPlan(W1, W.plans[s], 1)

\* subscribe without the call that initialises the subscriber
TimelineSubscribeSilent(W, t, s) ==
  LET W1 == [W EXCEPT !.timelines[t].subscribers = SetAdd(@, s),
                      !.handles = @ \cup {<<t, s>>}]
  IN  IF SetSize(W1.timelines[t].subscribers) = 1
      THEN LoopRegister(W1, t) ELSE W1

\* ScrollTimeline.subscribe
TimelineSubscribe(W, t, s) ==
  LET W1 == [W EXCEPT !.timelines[t].subscribers = SetAdd(@, s),
                      !.handles = @ \cup {<<t, s>>}]
      W2 == Caught(InvokeSubscriber(W1, t, s))
  IN  IF SetSize(W2.timelines[t].subscribers) = 1
      THEN LoopRegister(W2, t) ELSE W2

\* ScrollTimeline.unsubscribe, and the function subscribe returns
TimelineUnsubscribe(W, t, s) ==
  LET W1 == [W EXCEPT !.timelines[t].subscribers = SetDelete(@, s)]
  IN  IF SetSize(W1.timelines[t].subscribers) = 0
      THEN LoopUnregister(W1, t) ELSE W1

\* ScrollTimeline.stop
TimelineStop(W, t) == LoopUnregister(W, t)

\* TimelineDestroy that leaves the tick registered with the Scheduler
TimelineDestroyKeepsTick(W, t) ==
  [W EXCEPT !.timelines[t].subscribers = SetClear(@),
            !.timelines[t].observing = FALSE]

\* ScrollTimeline.destroy
TimelineDestroy(W, t) ==
  LET W1 == [W EXCEPT !.timelines[t].subscribers = SetClear(@)]
  IN  [LoopUnregister(W1, t) EXCEPT !.timelines[t].observing = FALSE]

\* what a callback of the caller's does when it is invoked
RunPlan(W, plan, k) ==
  IF k > Len(plan) THEN W
  ELSE IF plan[k].op = "throw" THEN [W EXCEPT !.thrown = TRUE]
  ELSE RunPlan(ApplyOp(W, plan[k]), plan, k + 1)

ApplyOp(W, o) ==
  CASE o.op = "register" -> LoopRegister(W, o.cb)
    [] o.op = "unregister" -> LoopUnregister(W, o.cb)
    [] o.op = "subscribe" -> TimelineSubscribe(W, o.t, o.s)
    [] o.op = "unsubscribe" -> TimelineUnsubscribe(W, o.t, o.s)
    [] o.op = "stop" -> TimelineStop(W, o.t)
    [] o.op = "destroy" -> TimelineDestroy(W, o.t)

\* one call a callback of the caller's makes
Op(op, cb, t, s) == [op |-> op, cb |-> cb, t |-> t, s |-> s]

Throw == Op("throw", "", "", "")

\* the plans a callback registered with the Scheduler is armed with
GenericPlans(cb) == {<<Throw>>, <<Op("unregister", cb, "", "")>>}

\* the plans a subscriber is armed with
SubscriberPlans(s) ==
  {<<Throw>>}
  \cup {<<Op("unsubscribe", "", t, s)>> :
          t \in {u \in Timelines : <<u, s>> \in Subscriptions}}

PlansOf(cb) == IF cb \in GenericCallbacks THEN GenericPlans(cb)
               ELSE SubscriberPlans(cb)

\* a ScrollTimeline as its constructor leaves it
NewTimeline ==
  [subscribers |-> <<>>, currentProgress |-> 0,
   cachedRect |-> [has |-> FALSE, height |-> 0],
   cachedScrollParent |-> "null", cachedViewportHeight |-> 0,
   cachedOffsetTop |-> 0, isLayoutDirty |-> TRUE, observing |-> hasWindow]

\* the live geometry of a container: its bounding rectangle and its nearest
\* scrolling ancestor, "window" when there is none
Geometry(top, height, parent, parentTop, parentHeight) ==
  [top |-> top, height |-> height, parent |-> parent,
   parentTop |-> parentTop, parentHeight |-> parentHeight]

InWindow(top, height) == Geometry(top, height, "window", 0, 0)

\* the callback of the engine has not been invoked
NoProgress == -1

\* an EventScrollEngine as its constructor leaves it
NewEngine(totalScroll) ==
  [currentScroll |-> 0, totalScroll |-> totalScroll, isActive |-> FALSE,
   touchStartY |-> 0, rafId |-> 0, isTicking |-> FALSE]

EngIdle ==
  /\ engine = NewEngine(0)
  /\ engRequests = {}
  /\ engDelivered = NoProgress
  /\ engPhase = "new"

LoopIdle ==
  /\ callbacks = <<>>
  /\ rafId = 0
  /\ isActive = FALSE
  /\ rafPending = <<>>
  /\ hasWindow = TRUE
  /\ plans = [cb \in GenericCallbacks \cup Subscribers |-> <<>>]
  /\ arms = 0
  /\ timelines = [t \in Timelines |-> NewTimeline]
  /\ handles = {}
  /\ geometry = [t \in Timelines |-> InWindow(0, 0)]
  /\ innerHeight = 0
  /\ roPending = [t \in Timelines |-> FALSE]
  /\ resizePending = FALSE
  /\ loopCalls = [cb \in LoopCallbacks |-> 0]
  /\ notified = <<>>

(***************************************************************************)
(* SpecRes: one resolveSequence call on an enumerated source.  A manifest  *)
(* source is given with the response body its fetch delivered.             *)
(***************************************************************************)
NoData == OtherBody("null")

Source(type, list, url, hasStart, start, end, pad, size, data) ==
  [type |-> type, frames |-> list, url |-> url, hasStart |-> hasStart,
   start |-> start, end |-> end, pad |-> pad, size |-> size, data |-> data]

ManualSources ==
  {Source("manual", f, <<>>, FALSE, 0, 0, 0, Text(0, 0), NoData) :
     f \in BoundedSeq(FramePool, MaxManualLen) \cup {[i \in 1..9000 |-> U_ok]}}

PatternSources ==
  {Source("pattern", <<>>, t, hs, IF hs THEN st ELSE 0, en, pd, Text(0, 0),
          NoData) :
     t \in TemplatePool, hs \in BOOLEAN, st \in {-1, 0, 1, 2, 9},
     en \in {0, 1, 3, 10, 2001}, pd \in {0, 2, 3}}
  \cup
  {Source("pattern", <<>>, T_f, TRUE, st, 8001, 0, Text(0, 0), NoData) :
     st \in {1, 2}}

BodyPool ==
  {OtherBody(j) : j \in {"syntax", "null", "number", "array", "object"}}
  \cup
  {FramesBody(f, a) :
     f \in {<<>>, <<U_a2, U_a1, U_a10>>, <<U_evil, U_a10>>, <<U_js>>},
     a \in BOOLEAN}
  \cup
  {PatternBody(p[1], p[2], e[1], e[2], st[1], st[2], pd[1], pd[2]) :
     p \in {<<"str", T_f>>, <<"str", T_scheme>>, <<"str", <<>>>>,
            <<"num", <<>>>>, <<"undef", <<>>>>},
     e \in {<<"int", 3>>, <<"int", 0>>, <<"frac", 2>>, <<"undef", 0>>,
            <<"str", 0>>},
     st \in {<<"undef", 0>>, <<"null", 0>>, <<"int", 0>>, <<"int", 2>>,
             <<"frac", 1>>, <<"str", 0>>},
     pd \in {<<"undef", 0>>, <<"null", 0>>, <<"int", 0>>, <<"int", 2>>,
             <<"frac", 1>>}}

ManifestSources ==
  {Source("manifest", <<>>, <<>>, FALSE, 0, 0, 0, sz, d) :
     sz \in {Text(MANIFEST_MAX_SIZE_BYTES - 1, 0),
             Text(MANIFEST_MAX_SIZE_BYTES, 0),
             Text(MANIFEST_MAX_SIZE_BYTES + 1, 0),
             Text(MANIFEST_MAX_SIZE_BYTES - 1, 1)},
     d \in BodyPool}

UnknownSources ==
  {Source("unknown", <<>>, <<>>, FALSE, 0, 0, 0, Text(0, 0), NoData)}

NoResult == Thrown("")

EmptyMap == [x \in {} |-> 0]

\* the size of a canvas element whose width and height were never set
DefaultCanvasSize == <<300, 150>>

\* the part of the state a specification does not use
CtlIdle ==
  /\ frames = <<>>
  /\ strategy = "eager"
  /\ bufferSize = 10
  /\ imageCache = EmptyMap
  /\ loadingPromises = EmptyMap
  /\ currentFrameIndex = -1
  /\ isDestroyed = FALSE
  /\ loads = <<>>
  /\ thens = <<>>
  /\ canvas = -1
  /\ paints = 0
  /\ updates = 0
  /\ updateLog = <<>>
  /\ canvasSize = DefaultCanvasSize
  /\ resizes = 0

ManIdle ==
  /\ manifestCache = <<>>
  /\ promises = <<>>
  /\ fetchLog = <<>>
  /\ lastCall = [url |-> <<>>, pid |-> 0, tick |-> FALSE]

ResIdle ==
  /\ resSource = Source("unknown", <<>>, <<>>, FALSE, 0, 0, 0, Text(0, 0),
                        NoData)
  /\ resEnv = EnvAbsent
  /\ resOut = NoResult
  /\ resPc = "idle"

InitRes ==
  /\ resSource \in ManualSources \cup PatternSources \cup ManifestSources
                     \cup UnknownSources
  /\ resEnv \in EnvPool
  /\ resOut = NoResult
  /\ resPc = "call"
  /\ CtlIdle
  /\ ManIdle
  /\ LoopIdle
  /\ EngIdle

\* resolveSequence, case 'manual'
ResolveManual ==
  /\ resPc = "call"
  /\ resSource.type = "manual"
  /\ resOut' = ProcessManualFrames(resSource.frames, resEnv)
  /\ resPc' = "done"
  /\ UNCHANGED <<resSource, resEnv, engVars, ctlVars, manVars, loopVars>>

\* resolveSequence, case 'pattern' (start defaults to 1)
ResolvePattern ==
  /\ resPc = "call"
  /\ resSource.type = "pattern"
  /\ resOut' = ProcessPatternMode(resSource.url,
                  IF resSource.hasStart THEN resSource.start ELSE 1,
                  resSource.end, resSource.pad, resEnv)
  /\ resPc' = "done"
  /\ UNCHANGED <<resSource, resEnv, engVars, ctlVars, manVars, loopVars>>

\* resolveSequence, case 'manifest', from the body of the response on
ResolveManifestBody ==
  /\ resPc = "call"
  /\ resSource.type = "manifest"
  /\ resOut' = ProcessBody(Response(TRUE, "json", resSource.size,
                                    resSource.data), resEnv)
  /\ resPc' = "done"
  /\ UNCHANGED <<resSource, resEnv, engVars, ctlVars, manVars, loopVars>>

\* resolveSequence, default case
ResolveUnknown ==
  /\ resPc = "call"
  /\ resSource.type = "unknown"
  /\ resOut' = Resolved(<<>>, 0)
  /\ resPc' = "done"
  /\ UNCHANGED <<resSource, resEnv, engVars, ctlVars, manVars, loopVars>>

NextRes ==
  \/ ResolveManual
  \/ ResolvePattern
  \/ ResolveManifestBody
  \/ ResolveUnknown

SpecRes == InitRes /\ [][NextRes]_vars

(***************************************************************************)
(* The ImageController, src/src/controllers/imageController.ts.            *)
(* The mutable fields of a controller are gathered in a record c so that   *)
(* the private methods can be composed; frames, strategy, bufferSize and   *)
(* isDestroyed are read from the state.  Frame indices are 0-based as in   *)
(* the source.                                                             *)
(***************************************************************************)
\* progress values handed to update are ProgressNums / ProgressDen
ProgressDen == 2

ProgressNums == {-1, 0, 1, 2, 3}

\* the sizes handed to setCanvasSize
CanvasSizes == {<<200, 400>>}

CtlRec ==
  [imageCache |-> imageCache, loadingPromises |-> loadingPromises,
   loads |-> loads, thens |-> thens, canvas |-> canvas, paints |-> paints]

\* new Image() with onload/onerror set and src assigned
LoadImage(c, src) ==
  [c EXCEPT !.loads = Append(@, [src |-> src, state |-> "loading",
                                 decoded |-> FALSE])]

\* PreloadFrame that starts a load whenever the URL is not cached
PreloadFrameNoDedup(c, index) ==
  IF isDestroyed \/ index < 0 \/ index >= Len(frames) THEN c
  ELSE LET src == frames[index + 1]
       IN  IF src \in DOMAIN c.imageCache THEN c
           ELSE [LoadImage(c, src) EXCEPT
                   !.loadingPromises = (src :> (Len(c.loads) + 1)) @@ @]

PreloadFrame(c, index) ==
  IF isDestroyed \/ index < 0 \/ index >= Len(frames) THEN c
  ELSE LET src == frames[index + 1]
       IN  IF src \in DOMAIN c.imageCache THEN c
           ELSE IF src \in DOMAIN c.loadingPromises THEN c
           ELSE [LoadImage(c, src) EXCEPT
                   !.loadingPromises = (src :> (Len(c.loads) + 1)) @@ @]

RECURSIVE PreloadRange(_, _, _)
PreloadRange(c, from, to) ==
  IF from > to THEN c
  ELSE PreloadRange(PreloadFrame(c, from), from + 1, to)

PreloadAll(c) == PreloadRange(c, 0, Len(frames) - 1)

EnsureFrameWindow(c, currentIndex) ==
  IF isDestroyed THEN c
  ELSE LET radius == bufferSize
           start == Max({0, currentIndex - radius})
           end == Min({Len(frames) - 1, currentIndex + radius})
           needed == {frames[i + 1] : i \in start..end}
           unused == DOMAIN c.imageCache \ needed
           cleaned ==
             [c EXCEPT
                !.imageCache = [src \in DOMAIN @ \ unused |-> @[src]],
                !.loadingPromises = [src \in DOMAIN @ \ unused |-> @[src]]]
       IN  PreloadRange(cleaned, start, end)

DrawFrame(c, index) ==
  IF isDestroyed \/ index < 0 \/ index >= Len(frames) THEN c
  ELSE LET src == frames[index + 1]
       IN  IF src \notin DOMAIN c.imageCache
           THEN IF src \in DOMAIN c.loadingPromises
                THEN [c EXCEPT !.thens =
                        Append(@, [pid |-> c.loadingPromises[src],
                                   index |-> index])]
                ELSE c
           ELSE [c EXCEPT !.canvas = index, !.paints = @ + 1]

\* RunThens that draws without asking whether the index is still current
RECURSIVE RunThensAlways(_, _, _, _)
RunThensAlways(c, pid, cur, k) ==
  IF k > Len(c.thens) THEN c
  ELSE IF c.thens[k].pid = pid
       THEN RunThensAlways(DrawFrame(c, c.thens[k].index), pid, cur, k + 1)
       ELSE RunThensAlways(c, pid, cur, k + 1)

\* the callbacks attached to promise pid run in order once it is fulfilled
RECURSIVE RunThens(_, _, _, _)
RunThens(c, pid, cur, k) ==
  IF k > Len(c.thens) THEN c
  ELSE IF c.thens[k].pid = pid /\ cur = c.thens[k].index
       THEN RunThens(DrawFrame(c, c.thens[k].index), pid, cur, k + 1)
       ELSE RunThens(c, pid, cur, k + 1)

DropThens(c, pid) ==
  [c EXCEPT !.thens = SelectSeq(@, LAMBDA t : t.pid # pid)]

SetCtl(c) ==
  /\ imageCache' = c.imageCache
  /\ loadingPromises' = c.loadingPromises
  /\ loads' = c.loads
  /\ thens' = c.thens
  /\ canvas' = c.canvas
  /\ paints' = c.paints

\* FrameIndexOf that scales by the frame count
FrameIndexOfCount(num) == (num * Len(frames)) \div ProgressDen

FrameIndexOf(num) == (num * (Len(frames) - 1)) \div ProgressDen

CtlFrameLists ==
  {[i \in 1..n |-> <<Digits[i + 1]>>] : n \in 0..MaxCtlFrames}
  \cup {<<<<"1">>, <<"2">>, <<"1">>>>}

\* the state the constructor leaves
InitCtl ==
  /\ frames \in CtlFrameLists
  /\ strategy \in {"eager", "lazy"}
  /\ \E cfg \in IF strategy = "eager" THEN {0} ELSE {0, 1, 2} :
        bufferSize = IF cfg = 0 THEN 10 ELSE cfg
  /\ currentFrameIndex = -1
  /\ isDestroyed = FALSE
  /\ updates = 0
  /\ updateLog = <<>>
  /\ canvasSize = DefaultCanvasSize
  /\ resizes = 0
  /\ LET c0 == [imageCache |-> EmptyMap, loadingPromises |-> EmptyMap,
                loads |-> <<>>, thens |-> <<>>, canvas |-> -1, paints |-> 0]
         c1 == IF strategy = "eager" THEN PreloadAll(c0)
               ELSE EnsureFrameWindow(c0, 0)
     IN  /\ imageCache = c1.imageCache
         /\ loadingPromises = c1.loadingPromises
         /\ loads = c1.loads
         /\ thens = c1.thens
         /\ canvas = c1.canvas
         /\ paints = c1.paints
  /\ ResIdle
  /\ ManIdle
  /\ LoopIdle
  /\ EngIdle

\* Update without the early return for an unchanged frame index
UpdateAlwaysDraws(num) ==
  /\ updates < MaxUpdates
  /\ updates' = updates + 1
  /\ updateLog' = Append(updateLog, num)
  /\ IF isDestroyed \/ Len(frames) = 0
     THEN UNCHANGED <<imageCache, loadingPromises, loads, thens, canvas,
                      paints, currentFrameIndex>>
     ELSE LET frameIndex == FrameIndexOf(num)
              c1 == IF strategy = "lazy"
                    THEN EnsureFrameWindow(CtlRec, frameIndex) ELSE CtlRec
          IN  /\ currentFrameIndex' = frameIndex
              /\ SetCtl(DrawFrame(c1, frameIndex))
  /\ UNCHANGED <<frames, strategy, bufferSize, isDestroyed, canvasSize,
                 resizes, resVars, engVars, manVars, loopVars>>

\* Update that refreshes the lazy window only when the frame index changes
UpdateWindowOnChange(num) ==
  /\ updates < MaxUpdates
  /\ updates' = updates + 1
  /\ updateLog' = Append(updateLog, num)
  /\ IF isDestroyed \/ Len(frames) = 0
     THEN UNCHANGED <<imageCache, loadingPromises, loads, thens, canvas,
                      paints, currentFrameIndex>>
     ELSE LET frameIndex == FrameIndexOf(num)
          IN  IF frameIndex = currentFrameIndex
              THEN SetCtl(CtlRec) /\ UNCHANGED currentFrameIndex
              ELSE /\ currentFrameIndex' = frameIndex
                   /\ SetCtl(DrawFrame(
                        IF strategy = "lazy"
                        THEN EnsureFrameWindow(CtlRec, frameIndex)
                        ELSE CtlRec, frameIndex))
  /\ UNCHANGED <<frames, strategy, bufferSize, isDestroyed, canvasSize,
                 resizes, resVars, engVars, manVars, loopVars>>

Update(num) ==
  /\ updates < MaxUpdates
  /\ updates' = updates + 1
  /\ updateLog' = Append(updateLog, num)
  /\ IF isDestroyed \/ Len(frames) = 0
     THEN UNCHANGED <<imageCache, loadingPromises, loads, thens, canvas,
                      paints, currentFrameIndex>>
     ELSE LET frameIndex == FrameIndexOf(num)
              c1 == IF strategy = "lazy"
                    THEN EnsureFrameWindow(CtlRec, frameIndex) ELSE CtlRec
          IN  IF frameIndex = currentFrameIndex
              THEN SetCtl(c1) /\ UNCHANGED currentFrameIndex
              ELSE /\ currentFrameIndex' = frameIndex
                   /\ SetCtl(DrawFrame(c1, frameIndex))
  /\ UNCHANGED <<frames, strategy, bufferSize, isDestroyed, canvasSize,
                 resizes, resVars, engVars, manVars, loopVars>>

SetLoadState(pid, st) ==
  /\ loads' = [loads EXCEPT ![pid].state = st]
  /\ UNCHANGED <<imageCache, loadingPromises, thens, canvas, paints>>

\* OnLoad that caches the image before it is decoded
OnLoadCaches(pid) ==
  /\ loads[pid].state = "loading"
  /\ IF isDestroyed THEN SetLoadState(pid, "dropped")
     ELSE /\ loads' = [loads EXCEPT ![pid].state = "decoding"]
          /\ imageCache' = (loads[pid].src :> pid) @@ imageCache
          /\ UNCHANGED <<loadingPromises, thens, canvas, paints>>
  /\ UNCHANGED <<frames, strategy, bufferSize, isDestroyed,
                 currentFrameIndex, updates, updateLog, canvasSize, resizes,
                 resVars, engVars, manVars, loopVars>>

\* img.onload
OnLoad(pid) ==
  /\ loads[pid].state = "loading"
  /\ SetLoadState(pid, IF isDestroyed THEN "dropped" ELSE "decoding")
  /\ UNCHANGED <<frames, strategy, bufferSize, isDestroyed,
                 currentFrameIndex, updates, updateLog, canvasSize, resizes,
                 resVars, engVars, manVars, loopVars>>

\* OnError that forgets the failed promise, so that the URL is loaded anew
OnErrorForgets(pid) ==
  /\ loads[pid].state = "loading"
  /\ IF isDestroyed THEN SetLoadState(pid, "dropped")
     ELSE /\ loads' = [loads EXCEPT ![pid].state = "rejected"]
          /\ thens' = SelectSeq(thens, LAMBDA t : t.pid # pid)
          /\ loadingPromises' =
               [src \in DOMAIN loadingPromises \ {loads[pid].src} |->
                  loadingPromises[src]]
          /\ UNCHANGED <<imageCache, canvas, paints>>
  /\ UNCHANGED <<frames, strategy, bufferSize, isDestroyed,
                 currentFrameIndex, updates, updateLog, canvasSize, resizes,
                 resVars, engVars, manVars, loopVars>>

\* img.onerror: the promise is rejected, its callbacks are not run
OnError(pid) ==
  /\ loads[pid].state = "loading"
  /\ IF isDestroyed THEN SetLoadState(pid, "dropped")
     ELSE /\ loads' = [loads EXCEPT ![pid].state = "rejected"]
          /\ thens' = SelectSeq(thens, LAMBDA t : t.pid # pid)
          /\ UNCHANGED <<imageCache, loadingPromises, canvas, paints>>
  /\ UNCHANGED <<frames, strategy, bufferSize, isDestroyed,
                 currentFrameIndex, updates, updateLog, canvasSize, resizes,
                 resVars, engVars, manVars, loopVars>>

\* DecodeSettled without the isDestroyed guards
DecodeSettledUnguarded(pid, ok) ==
  /\ loads[pid].state = "decoding"
  /\ LET src == loads[pid].src
         c1 == [CtlRec EXCEPT
                  !.imageCache = (src :> pid) @@ @,
                  !.loads[pid].state = "fulfilled",
                  !.loads[pid].decoded = ok]
     IN  SetCtl(DropThens(RunThens(c1, pid, currentFrameIndex, 1), pid))
  /\ UNCHANGED <<frames, strategy, bufferSize, isDestroyed,
                 currentFrameIndex, updates, updateLog, canvasSize, resizes,
                 resVars, engVars, manVars, loopVars>>

\* img.decode() settles, fulfilled (ok) or rejected (~ok): either way the
\* image is cached and the promise resolved
DecodeSettled(pid, ok) ==
  /\ loads[pid].state = "decoding"
  /\ IF isDestroyed THEN SetLoadState(pid, "dropped")
     ELSE LET src == loads[pid].src
              c1 == [CtlRec EXCEPT
                       !.imageCache = (src :> pid) @@ @,
                       !.loads[pid].state = "fulfilled",
                       !.loads[pid].decoded = ok]
          IN  SetCtl(DropThens(RunThens(c1, pid, currentFrameIndex, 1), pid))
  /\ UNCHANGED <<frames, strategy, bufferSize, isDestroyed,
                 currentFrameIndex, updates, updateLog, canvasSize, resizes,
                 resVars, engVars, manVars, loopVars>>

\* SetCanvasSize that also empties the image cache
SetCanvasSizeClears(size) ==
  /\ resizes < MaxResizes
  /\ resizes' = resizes + 1
  /\ IF isDestroyed
     THEN UNCHANGED <<imageCache, loadingPromises, loads, thens, canvas,
                      paints, canvasSize>>
     ELSE /\ canvasSize' = size
          /\ LET c1 == [CtlRec EXCEPT !.canvas = -1, !.imageCache = EmptyMap]
             IN  IF currentFrameIndex >= 0
                 THEN SetCtl(DrawFrame(c1, currentFrameIndex))
                 ELSE SetCtl(c1)
  /\ UNCHANGED <<frames, strategy, bufferSize, isDestroyed,
                 currentFrameIndex, updates, updateLog, resVars, engVars, manVars, loopVars>>

\* setCanvasSize(width, height).  Assigning canvas.width or canvas.height
\* resets the bitmap of the canvas, so the surface is clear before drawFrame.
SetCanvasSize(size) ==
  /\ resizes < MaxResizes
  /\ resizes' = resizes + 1
  /\ IF isDestroyed
     THEN UNCHANGED <<imageCache, loadingPromises, loads, thens, canvas,
                      paints, canvasSize>>
     ELSE /\ canvasSize' = size
          /\ LET c1 == [CtlRec EXCEPT !.canvas = -1]
             IN  IF currentFrameIndex >= 0
                 THEN SetCtl(DrawFrame(c1, currentFrameIndex))
                 ELSE SetCtl(c1)
  /\ UNCHANGED <<frames, strategy, bufferSize, isDestroyed,
                 currentFrameIndex, updates, updateLog, resVars, engVars, manVars, loopVars>>

Destroy ==
  /\ isDestroyed' = TRUE
  /\ canvas' = -1
  /\ imageCache' = EmptyMap
  /\ loadingPromises' = EmptyMap
  /\ UNCHANGED <<frames, strategy, bufferSize, currentFrameIndex, loads,
                 thens, paints, updates, updateLog, canvasSize, resizes,
                 resVars, engVars, manVars, loopVars>>

NextCtl ==
  \/ \E num \in ProgressNums : Update(num)
  \/ \E pid \in 1..Len(loads) : OnLoad(pid)
  \/ \E pid \in 1..Len(loads) : OnError(pid)
  \/ \E pid \in 1..Len(loads), ok \in BOOLEAN : DecodeSettled(pid, ok)
  \/ \E size \in CanvasSizes : SetCanvasSize(size)
  \/ Destroy

SpecCtl == InitCtl /\ [][NextCtl]_vars

(***************************************************************************)
(* processManifestMode and the manifest cache, src/src/types.ts:322-435.   *)
(* manifestCache is a JavaScript Map: a sequence of entries in insertion   *)
(* order.  A promise is the async function started at line 334; it is      *)
(* "fetching" while it awaits fetch, "reading" while it awaits res.text(), *)
(* and then "fulfilled" or "rejected".                                     *)
(***************************************************************************)
MapHas(cache, url) == \E i \in 1..Len(cache) : cache[i].url = url

MapGet(cache, url) == cache[CHOOSE i \in 1..Len(cache) : cache[i].url = url].pid

MapDelete(cache, url) == SelectSeq(cache, LAMBDA e : e.url # url)

MapSet(cache, url, pid) ==
  IF MapHas(cache, url)
  THEN [i \in 1..Len(cache) |->
          IF cache[i].url = url THEN [url |-> url, pid |-> pid] ELSE cache[i]]
  ELSE Append(cache, [url |-> url, pid |-> pid])

\* types.ts:427-431; an empty-string key is falsy and is not deleted
EvictOldest(cache) ==
  IF Len(cache) >= MANIFEST_CACHE_MAX_ENTRIES
  THEN LET oldestKey == cache[1].url
       IN  IF oldestKey # <<>> THEN MapDelete(cache, oldestKey) ELSE cache
  ELSE cache

\* IsSecureUrl that accepts every URL beginning with http
IsSecureUrlAnyHttp(url) == StartsWith(url, HttpScheme)

\* url.startsWith('https://')
IsSecureUrl(url) == StartsWith(url, HttpsScheme \o <<":", "/", "/">>)

\* CacheHit of a resolver that never looks into the cache
CacheHitNever(url) == FALSE

\* manifestCache.has(url), types.ts:330
CacheHit(url) == MapHas(manifestCache, url)

NoResponse == Response(FALSE, "absent", Text(0, 0), NoData)

Promise(url, state, err, value, resp) ==
  [url |-> url, state |-> state, err |-> err, value |-> value, resp |-> resp]

Tick(url, pid) == [url |-> url, pid |-> pid, tick |-> ~lastCall.tick]

\* one call processManifestMode(url), up to its return
ProcessManifestMode(url) ==
  IF CacheHit(url)
  THEN /\ lastCall' = Tick(url, MapGet(manifestCache, url))
       /\ UNCHANGED <<manifestCache, promises, fetchLog>>
  ELSE LET pid == Len(promises) + 1
           secure == IsSecureUrl(url)
           caught == IF secure THEN manifestCache
                     ELSE MapDelete(manifestCache, url)
       IN  /\ promises' = Append(promises,
                IF secure
                THEN Promise(url, "fetching", "", NoResult, NoResponse)
                ELSE Promise(url, "rejected", "NotHttps", NoResult,
                             NoResponse))
           /\ fetchLog' = IF secure THEN Append(fetchLog, url) ELSE fetchLog
           /\ manifestCache' = MapSet(EvictOldest(caught), url, pid)
           /\ lastCall' = Tick(url, pid)

Resolve(url) ==
  /\ ProcessManifestMode(url)
  /\ UNCHANGED <<resVars, engVars, ctlVars, loopVars>>

\* Reject that leaves the cache entry of the failed URL in place
RejectKeepsEntry(pid, err) ==
  /\ promises' = [promises EXCEPT ![pid].state = "rejected", ![pid].err = err,
                                  ![pid].resp = NoResponse]
  /\ UNCHANGED <<manifestCache, fetchLog, lastCall, resVars, engVars, ctlVars,
                 loopVars>>

\* the catch block, types.ts:413-423
Reject(pid, err) ==
  /\ promises' = [promises EXCEPT ![pid].state = "rejected", ![pid].err = err,
                                  ![pid].resp = NoResponse]
  /\ manifestCache' = MapDelete(manifestCache, promises[pid].url)
  /\ UNCHANGED <<fetchLog, lastCall, resVars, engVars, ctlVars,
                 loopVars>>

\* fetch() delivers the response head
FetchResponds(pid, resp) ==
  /\ promises[pid].state = "fetching"
  /\ IF CheckResponse(resp) # "" THEN Reject(pid, CheckResponse(resp))
     ELSE /\ promises' = [promises EXCEPT ![pid].state = "reading",
                                          ![pid].resp = resp]
          /\ UNCHANGED <<manifestCache, fetchLog, lastCall, resVars, engVars, ctlVars,
                 loopVars>>

\* res.text() delivers the body
BodyRead(pid) ==
  /\ promises[pid].state = "reading"
  /\ LET out == ProcessBody(promises[pid].resp, resEnv)
     IN  IF out.ok
         THEN /\ promises' = [promises EXCEPT ![pid].state = "fulfilled",
                                              ![pid].value = out,
                                              ![pid].resp = NoResponse]
              /\ UNCHANGED <<manifestCache, fetchLog, lastCall, resVars, engVars,
                             ctlVars, loopVars>>
         ELSE Reject(pid, out.err)

\* the timer of line 343 fires and aborts the request
FetchAborted(pid) ==
  /\ promises[pid].state \in {"fetching", "reading"}
  /\ Reject(pid, "Timeout")

\* fetch() or res.text() rejects with a network error
FetchFails(pid) ==
  /\ promises[pid].state \in {"fetching", "reading"}
  /\ Reject(pid, "Network")

ManifestUrl(i) == HttpsScheme \o <<":", "/", "/">> \o NatToStr(i)

InsecureUrl == HttpScheme \o <<":", "/", "/", "h">>

GoodResponse ==
  Response(TRUE, "json", Text(10, 0), FramesBody(<<U_a2, U_a1>>, TRUE))

ManUrls == {<<>>, InsecureUrl, ManifestUrl(1), ManifestUrl(2)}

ManResponses ==
  {GoodResponse,
   Response(FALSE, "json", Text(10, 0), FramesBody(<<U_a2, U_a1>>, TRUE)),
   Response(TRUE, "html", Text(10, 0), FramesBody(<<U_a2, U_a1>>, TRUE)),
   Response(TRUE, "absent", Text(10, 0), FramesBody(<<U_a2, U_a1>>, TRUE)),
   Response(TRUE, "json", Text(MANIFEST_MAX_SIZE_BYTES + 1, 0),
            FramesBody(<<U_a2, U_a1>>, TRUE)),
   Response(TRUE, "json", Text(10, 0), OtherBody("object")),
   Response(TRUE, "json", Text(10, 0),
            PatternBody("str", T_f, "int", 3, "undef", 0, "int", 2))}

InitMan == ResIdle /\ CtlIdle /\ ManIdle /\ LoopIdle /\ EngIdle

\* SpecMan: a few manifest URLs, every way a fetch can end
NextMan ==
  \/ \E url \in ManUrls :
       /\ CacheHit(url) \/ Len(promises) < MaxManifestPromises
       /\ Resolve(url)
  \/ \E pid \in 1..Len(promises), resp \in ManResponses :
       FetchResponds(pid, resp)
  \/ \E pid \in 1..Len(promises) : BodyRead(pid)
  \/ \E pid \in 1..Len(promises) : FetchAborted(pid)
  \/ \E pid \in 1..Len(promises) : FetchFails(pid)

SpecMan == InitMan /\ [][NextMan]_vars

\* SpecFill: the cache is filled with distinct URLs over a network that
\* answers every request with a valid manifest.  Distinct https URLs are
\* interchangeable, so new ones are taken in the order 1, 2, ..., one after
\* the other: a new URL is resolved when no fetch of another new URL is in
\* flight.  Besides a new URL a call may name the empty URL or, at any
\* time, the first URL again.
NextFresh == Cardinality({fetchLog[i] : i \in 1..Len(fetchLog)}) + 1

FillUrls ==
  {<<>>, ManifestUrl(1)}
  \cup (IF NextFresh <= MaxFillUrls THEN {ManifestUrl(NextFresh)} ELSE {})

FreshInFlight ==
  \E pid \in 1..Len(promises) :
     /\ promises[pid].state \in {"fetching", "reading"}
     /\ promises[pid].url # ManifestUrl(1)

FillCallable(url) ==
  \/ url \in {<<>>, ManifestUrl(1)}
  \/ ~FreshInFlight

NextFill ==
  \/ \E url \in FillUrls : FillCallable(url) /\ Resolve(url)
  \/ \E pid \in 1..Len(promises) : FetchResponds(pid, GoodResponse)
  \/ \E pid \in 1..Len(promises) : BodyRead(pid)

SpecFill == InitMan /\ [][NextFill]_vars

SetWorld(W) ==
  /\ callbacks' = Compact(W.callbacks)
  /\ rafId' = W.rafId
  /\ isActive' = W.isActive
  /\ rafPending' = W.rafPending
  /\ plans' = W.plans
  /\ timelines' = [t \in Timelines |->
                     [W.timelines[t] EXCEPT !.subscribers = Compact(@)]]
  /\ handles' = W.handles
  /\ loopCalls' = W.loopCalls
  /\ notified' = W.notified

hostVars == <<hasWindow, geometry, innerHeight, roPending, resizePending>>

\* ScrollLoopManager.getInstance().register(cb), called by other code
Register(cb) ==
  /\ SetWorld(LoopRegister(World, cb))
  /\ UNCHANGED <<arms, hostVars, resVars, engVars, ctlVars, manVars>>

Unregister(cb) ==
  /\ SetWorld(LoopUnregister(World, cb))
  /\ UNCHANGED <<arms, hostVars, resVars, engVars, ctlVars, manVars>>

Subscribe(t, s) ==
  /\ SetWorld(TimelineSubscribe(World, t, s))
  /\ UNCHANGED <<arms, hostVars, resVars, engVars, ctlVars, manVars>>

\* the function a subscribe(s) call on t returned
UnsubscribeFn(t, s) ==
  /\ <<t, s>> \in handles
  /\ SetWorld(TimelineUnsubscribe(World, t, s))
  /\ UNCHANGED <<arms, hostVars, resVars, engVars, ctlVars, manVars>>

Unsubscribe(t, s) ==
  /\ SetWorld(TimelineUnsubscribe(World, t, s))
  /\ UNCHANGED <<arms, hostVars, resVars, engVars, ctlVars, manVars>>

Stop(t) ==
  /\ SetWorld(TimelineStop(World, t))
  /\ UNCHANGED <<arms, hostVars, resVars, engVars, ctlVars, manVars>>

DestroyTimeline(t) ==
  /\ SetWorld(TimelineDestroy(World, t))
  /\ UNCHANGED <<arms, hostVars, resVars, engVars, ctlVars, manVars>>

\* the caller decides what a callback will do when it is invoked next
Arm(cb, plan) ==
  /\ arms < MaxArms
  /\ plans[cb] = <<>>
  /\ arms' = arms + 1
  /\ plans' = [plans EXCEPT ![cb] = plan]
  /\ UNCHANGED <<callbacks, rafId, isActive, rafPending, timelines, handles,
                 loopCalls, notified, hostVars, resVars, engVars, ctlVars, manVars>>

\* the host runs the animation frame callbacks requested before this frame,
\* in the order of their requests
RECURSIVE RunFrame(_)
RunFrame(W) ==
  IF W.frameQueue = <<>> THEN W
  ELSE RunFrame(LoopTick([W EXCEPT !.frameQueue = Tail(@)]))

AnimationFrame ==
  /\ hasWindow
  /\ ~resizePending
  /\ rafPending # <<>>
  /\ SetWorld(RunFrame([World EXCEPT !.frameQueue = rafPending,
                                     !.rafPending = <<>>,
                                     !.inFrame = TRUE]))
  /\ UNCHANGED <<arms, hostVars, resVars, engVars, ctlVars, manVars>>

loopState == <<callbacks, rafId, isActive, rafPending, plans, arms, handles,
               loopCalls, notified>>

\* the page scrolls: the container's top moves
Scroll(t, top) ==
  /\ geometry[t].top # top
  /\ geometry' = [geometry EXCEPT ![t].top = top]
  /\ UNCHANGED <<loopState, timelines, hasWindow, innerHeight, roPending,
                 resizePending, resVars, engVars, ctlVars, manVars>>

\* the container's height changes; its ResizeObserver will be told
ContainerResizes(t, height) ==
  /\ geometry[t].height # height
  /\ geometry' = [geometry EXCEPT ![t].height = height]
  /\ roPending' = [roPending EXCEPT ![t] = TRUE]
  /\ UNCHANGED <<loopState, timelines, hasWindow, innerHeight, resizePending,
                 resVars, engVars, ctlVars, manVars>>

\* the callback of the ResizeObserver (scrollTimeline.ts:25-27)
ResizeObserved(t) ==
  /\ roPending[t]
  /\ timelines[t].observing
  /\ roPending' = [roPending EXCEPT ![t] = FALSE]
  /\ timelines' = [timelines EXCEPT ![t].isLayoutDirty = TRUE]
  /\ UNCHANGED <<loopState, hasWindow, geometry, innerHeight, resizePending,
                 resVars, engVars, ctlVars, manVars>>

\* the scrolling ancestor of the container changes its height; nothing
\* observes it
ParentResizes(t, height) ==
  /\ geometry[t].parent = "element"
  /\ geometry[t].parentHeight # height
  /\ geometry' = [geometry EXCEPT ![t].parentHeight = height]
  /\ UNCHANGED <<loopState, timelines, hasWindow, innerHeight, roPending,
                 resizePending, resVars, engVars, ctlVars, manVars>>

\* the window is resized; its resize event will be dispatched
WindowResizes(height) ==
  /\ hasWindow
  /\ innerHeight # height
  /\ innerHeight' = height
  /\ resizePending' = TRUE
  /\ UNCHANGED <<loopState, timelines, hasWindow, geometry, roPending,
                 resVars, engVars, ctlVars, manVars>>

\* onWindowResize of every Timeline that still listens
ResizeEvent ==
  /\ resizePending
  /\ resizePending' = FALSE
  /\ timelines' = [t \in Timelines |->
                     IF timelines[t].observing
                     THEN [timelines[t] EXCEPT !.isLayoutDirty = TRUE]
                     ELSE timelines[t]]
  /\ UNCHANGED <<loopState, hasWindow, geometry, innerHeight, roPending,
                 resVars, engVars, ctlVars, manVars>>

\* the window height of the specifications
ViewportHeight == 2

\* SpecLoop: the Scheduler with two Timelines, two subscribers and one other
\* callback, in a page that does not move: the first container is scrolled
\* half way through, the second one not at all
InitLoop ==
  /\ callbacks = <<>>
  /\ rafId = 0
  /\ isActive = FALSE
  /\ rafPending = <<>>
  /\ hasWindow \in BOOLEAN
  /\ plans = [cb \in GenericCallbacks \cup Subscribers |-> <<>>]
  /\ arms = 0
  /\ timelines = [t \in Timelines |-> NewTimeline]
  /\ handles = {}
  /\ geometry = [t \in Timelines |->
                   IF t = "t1" THEN InWindow(-1, 4) ELSE InWindow(0, 4)]
  /\ innerHeight = ViewportHeight
  /\ roPending = [t \in Timelines |-> FALSE]
  /\ resizePending = FALSE
  /\ loopCalls = [cb \in LoopCallbacks |-> 0]
  /\ notified = <<>>
  /\ ResIdle
  /\ EngIdle
  /\ CtlIdle
  /\ ManIdle

NextLoop ==
  \/ \E cb \in GenericCallbacks : Register(cb)
  \/ \E cb \in GenericCallbacks : Unregister(cb)
  \/ \E p \in Subscriptions : Subscribe(p[1], p[2])
  \/ \E p \in Subscriptions : UnsubscribeFn(p[1], p[2])
  \/ \E p \in Subscriptions : Unsubscribe(p[1], p[2])
  \/ \E t \in Timelines : Stop(t)
  \/ \E t \in Timelines : DestroyTimeline(t)
  \/ \E cb \in GenericCallbacks \cup Subscribers :
       \E plan \in PlansOf(cb) : Arm(cb, plan)
  \/ AnimationFrame

SpecLoop == InitLoop /\ [][NextLoop]_vars

\* the positions and heights of the container, and the heights of the window
ScrollTops == {0, -1, -2}

ContainerHeights == {0, 4, 5, 10002}

WindowHeights == {2, 3}

\* SpecGeo: one Timeline with one subscriber in a page that scrolls and whose
\* container and window are resized
InitGeo ==
  /\ callbacks = <<>>
  /\ rafId = 0
  /\ isActive = FALSE
  /\ rafPending = <<>>
  /\ hasWindow = TRUE
  /\ plans = [cb \in GenericCallbacks \cup Subscribers |-> <<>>]
  /\ arms = 0
  /\ timelines = [t \in Timelines |-> NewTimeline]
  /\ handles = {}
  /\ geometry \in {[t \in Timelines |-> IF t = "t1" THEN g ELSE InWindow(0, 4)] :
                     g \in {InWindow(0, 0), InWindow(0, 4),
                            Geometry(1, 4, "element", 1, 2)}}
  /\ innerHeight = ViewportHeight
  /\ roPending = [t \in Timelines |-> FALSE]
  /\ resizePending = FALSE
  /\ loopCalls = [cb \in LoopCallbacks |-> 0]
  /\ notified = <<>>
  /\ ResIdle
  /\ EngIdle
  /\ CtlIdle
  /\ ManIdle

NextGeo ==
  \/ Subscribe("t1", "a")
  \/ UnsubscribeFn("t1", "a")
  \/ AnimationFrame
  \/ \E top \in ScrollTops : Scroll("t1", top)
  \/ \E height \in ContainerHeights : ContainerResizes("t1", height)
  \/ ResizeObserved("t1")
  \/ \E height \in WindowHeights : WindowResizes(height)
  \/ ResizeEvent
  \/ \E height \in WindowHeights : ParentResizes("t1", height)

SpecGeo == InitGeo /\ [][NextGeo]_vars

\* AnimationFrame is enabled, and every such step changes rafPending
FrameDue == hasWindow /\ ~resizePending /\ rafPending # <<>>

\* SpecGeoLive: the host keeps delivering what is due.  The last conjunct
\* is SF_vars(AnimationFrame), written with the enabling condition of the
\* action; the fairness of the frames is strong because the browser runs a
\* requested frame however often the window is resized
SpecGeoLive ==
  /\ SpecGeo
  /\ WF_vars(ResizeEvent)
  /\ WF_vars(ResizeObserved("t1"))
  /\ <>[](~FrameDue) \/ []<><<AnimationFrame>>_vars

\* a subscriber that destroys the Timeline, or leaves it, when it is invoked
TeardownPlans(t, s) ==
  {<<Op("destroy", "", t, "")>>, <<Op("unsubscribe", "", t, s)>>}

\* SpecTeardown: one Timeline with two subscribers in a page that scrolls and
\* is resized; the Timeline is destroyed by its owner or by a subscriber, and
\* used afterwards
InitTeardown ==
  /\ callbacks = <<>>
  /\ rafId = 0
  /\ isActive = FALSE
  /\ rafPending = <<>>
  /\ hasWindow = TRUE
  /\ plans = [cb \in GenericCallbacks \cup Subscribers |-> <<>>]
  /\ arms = 0
  /\ timelines = [t \in Timelines |-> NewTimeline]
  /\ handles = {}
  /\ geometry = [t \in Timelines |->
                   IF t = "t1" THEN InWindow(-1, 4) ELSE InWindow(0, 4)]
  /\ innerHeight = ViewportHeight
  /\ roPending = [t \in Timelines |-> FALSE]
  /\ resizePending = FALSE
  /\ loopCalls = [cb \in LoopCallbacks |-> 0]
  /\ notified = <<>>
  /\ ResIdle
  /\ EngIdle
  /\ CtlIdle
  /\ ManIdle

NextTeardown ==
  \/ \E s \in Subscribers : Subscribe("t1", s)
  \/ \E s \in Subscribers : UnsubscribeFn("t1", s)
  \/ DestroyTimeline("t1")
  \/ \E s \in Subscribers : \E plan \in TeardownPlans("t1", s) : Arm(s, plan)
  \/ AnimationFrame
  \/ \E top \in {0, -1} : Scroll("t1", top)
  \/ \E height \in {4, 5} : ContainerResizes("t1", height)
  \/ ResizeObserved("t1")
  \/ \E height \in WindowHeights : WindowResizes(height)
  \/ ResizeEvent

SpecTeardown == InitTeardown /\ [][NextTeardown]_vars

(***************************************************************************)
(* Properties of the resolver (SpecRes)                                    *)
(***************************************************************************)
ResDone == resPc = "done"

\* the errors the specification calls ValidationError
ValidationErrors ==
  {"TooManyFrames", "DisallowedProtocol", "NotObject", "FramesNotStrings",
   "PatternNotString", "BadEnd", "BadStart", "BadPad", "MissingConfig"}

PatternStart == IF resSource.hasStart THEN resSource.start ELSE 1

ValidatedManual == SanitizeFrameUrls(resSource.frames)

Occurrences(s, x) == Cardinality({i \in 1..Len(s) : s[i] = x})

IsPermutation(s, t) ==
  /\ Len(s) = Len(t)
  /\ \A i \in 1..Len(s) : Occurrences(s, s[i]) = Occurrences(t, s[i])

\* C6: every ResolvedSequence a resolve call returns, from a manual, a
\* pattern or a manifest source, has frameCount equal to the length of
\* frames and at most the effective frame cap.
C6_FrameCountWithinCap ==
  (ResDone /\ resOut.ok) =>
     /\ resOut.frameCount = Len(resOut.frames)
     /\ resOut.frameCount <= GetMaxFrames(resEnv)

\* a manual list resolved to exactly as many frames as the cap allows
C6_Witness ==
  /\ ResDone /\ resOut.ok
  /\ resSource.type = "manual"
  /\ resOut.frameCount = GetMaxFrames(resEnv)
  /\ Len(resOut.frames) = 3

\* C7: when the validated manual list or the pattern range end-start+1
\* exceeds the effective frame cap the call fails with a validation error
\* and returns no truncated sequence; a pattern call has then generated no
\* frame; 9000 manual frames fail under the default cap.
C7_OverCapFails ==
  ResDone =>
     /\ (resSource.type = "manual"
           /\ Len(ValidatedManual) > GetMaxFrames(resEnv))
          => (~resOut.ok /\ resOut.err = "TooManyFrames"
                /\ resOut.frames = <<>>)
     /\ (resSource.type = "pattern"
           /\ resSource.end - PatternStart + 1 > GetMaxFrames(resEnv))
          => (~resOut.ok /\ resOut.err \in ValidationErrors
                /\ resOut.frames = <<>> /\ resOut.generated = 0)
     /\ (resSource.type = "manual" /\ Len(resSource.frames) = 9000
           /\ resEnv = EnvAbsent)
          => (~resOut.ok /\ resOut.err = "TooManyFrames")

\* a pattern over the cap with a valid template has failed
C7_Witness ==
  /\ ResDone
  /\ resSource.type = "pattern"
  /\ resSource.url = T_f
  /\ resSource.end - PatternStart + 1 > GetMaxFrames(resEnv)
  /\ resOut.err = "TooManyFrames"

\* the numeric key of a frame URL as the specification words it
NumericKeySet(u) == HasDigit(u)

NumericKeyValue(u) == ParseDigits(FirstDigitRun(u))

SameKey(u, w) ==
  \/ ~NumericKeySet(u) /\ ~NumericKeySet(w)
  \/ NumericKeySet(u) /\ NumericKeySet(w)
       /\ NumericKeyValue(u) = NumericKeyValue(w)

KeyOrdered(u, w) ==
  \/ ~NumericKeySet(u)
  \/ NumericKeySet(u) /\ NumericKeySet(w)
       /\ NumericKeyValue(u) <= NumericKeyValue(w)

\* C8: a manual source resolves to a permutation of its validated frames in
\* non-decreasing order of the numeric key (first run of digits; a URL
\* without digits sorts below every numbered URL), frames with equal or
\* unset keys keep their relative order, and [a2, a1, a10] resolves to
\* [a1, a2, a10].
C8_ManualSortedStable ==
  (ResDone /\ resSource.type = "manual" /\ resOut.ok) =>
     LET out == resOut.frames
     IN  /\ IsPermutation(out, ValidatedManual)
         /\ \A i, j \in 1..Len(out) : i < j => KeyOrdered(out[i], out[j])
         /\ \A u \in FramePool :
              SelectSeq(out, LAMBDA w : SameKey(u, w))
                = SelectSeq(ValidatedManual, LAMBDA w : SameKey(u, w))
         /\ resSource.frames = <<U_a2, U_a1, U_a10>>
              => out = <<U_a1, U_a2, U_a10>>

\* a list with a numbered frame 0 before an unnumbered frame was resolved
C8_Witness ==
  /\ ResDone /\ resOut.ok
  /\ resSource.frames = <<U_a0, U_rel, U_b1>>
  /\ resOut.frames = <<U_rel, U_a0, U_b1>>

\* C9 as stated: a manual source whose URLs all fail validation makes the
\* call fail.
C9_Original_ZeroFramesFails ==
  (ResDone /\ resSource.type = "manual" /\ Len(resSource.frames) > 0
     /\ ValidatedManual = <<>>) => ~resOut.ok

\* C9 as amended: a manual source within the cap never fails because of
\* dropped URLs; the result holds exactly the URLs that pass validation,
\* and when none passes it is the empty sequence with frameCount 0.
C9_DroppedNotFatal ==
  (ResDone /\ resSource.type = "manual"
     /\ Len(ValidatedManual) <= GetMaxFrames(resEnv)) =>
     /\ resOut.ok
     /\ IsPermutation(resOut.frames, ValidatedManual)
     /\ \A i \in 1..Len(resOut.frames) : ValidateFrameUrl(resOut.frames[i])
     /\ ValidatedManual = <<>> => resOut.frameCount = 0

\* every URL of a non-empty manual list was dropped and the call returned
C9_Witness ==
  /\ ResDone /\ resSource.type = "manual"
  /\ Len(resSource.frames) > 0
  /\ ValidatedManual = <<>>
  /\ resOut.ok /\ resOut.frameCount = 0

\* C10: no frame URL of a returned sequence begins with // or has a scheme
\* other than http or https, for manual, pattern and manifest sources.
C10_NoUnsafeFrameUrl ==
  (ResDone /\ resOut.ok) =>
     \A i \in 1..Len(resOut.frames) :
        /\ ~StartsWith(resOut.frames[i], <<"/", "/">>)
        /\ URLProtocol(resOut.frames[i]) \in ALLOWED_PROTOCOLS

\* the frame the specification gives for integer i of a pattern source
PatternExpected(i) ==
  ReplaceFirst(resSource.url, IndexPlaceholder,
               PadStart(NumToString(i), resSource.pad))

PatternInRange ==
  /\ resSource.type = "pattern"
  /\ PatternStart <= resSource.end
  /\ resSource.end - PatternStart + 1 <= GetMaxFrames(resEnv)

PatternExact ==
  /\ resOut.ok
  /\ resOut.frameCount = resSource.end - PatternStart + 1
  /\ Len(resOut.frames) = resSource.end - PatternStart + 1
  /\ \A i \in 0..(resSource.end - PatternStart) :
        resOut.frames[i + 1] = PatternExpected(PatternStart + i)

\* C11 as stated: every resolve(Pattern) call with start <= end and a count
\* within the cap returns exactly end-start+1 frames, the i-th being the
\* template with {index} replaced by start+i, zero-padded to pad digits.
C11_Original_PatternFrames == (ResDone /\ PatternInRange) => PatternExact

\* C11 as amended: a resolve(Pattern) call with start <= end and a count
\* within the cap whose template passes URL validation returns exactly
\* end-start+1 frames, the i-th (from 0) being the template with {index}
\* replaced by start+i, left-zero-padded to pad digits when pad is given;
\* a call whose template fails validation fails with a validation error.
C11_ValidPatternFrames ==
  (ResDone /\ PatternInRange) =>
     IF ValidateFrameUrl(resSource.url) THEN PatternExact
     ELSE ~resOut.ok /\ resOut.err = "DisallowedProtocol"

\* /f_{index}.jpg with start 1, end 3, pad 2 gave /f_01.jpg .. /f_03.jpg
C11_Witness ==
  /\ ResDone
  /\ resSource.type = "pattern"
  /\ resSource.url = T_f
  /\ resSource.hasStart /\ resSource.start = 1
  /\ resSource.end = 3 /\ resSource.pad = 2
  /\ resOut.frameCount = 3
  /\ resOut.frames =
        << <<"/", "f", "_", "0", "1", ".", "j", "p", "g">>,
           <<"/", "f", "_", "0", "2", ".", "j", "p", "g">>,
           <<"/", "f", "_", "0", "3", ".", "j", "p", "g">> >>

(***************************************************************************)
(* Properties of the ImageController (SpecCtl)                             *)
(***************************************************************************)
AllLoadsSettled ==
  \A pid \in 1..Len(loads) : loads[pid].state \in {"fulfilled", "rejected"}

\* C1: for a lazy controller with buffer radius r, once every issued load
\* has settled the decoded-image cache holds at most 2*r+1 entries.
C1_LazyCacheBounded ==
  (strategy = "lazy" /\ ~isDestroyed /\ AllLoadsSettled) =>
     Cardinality(DOMAIN imageCache) <= 2 * bufferSize + 1

\* an update call has just returned; LastProgress is its argument
UpdateReturns == updates' # updates

LastProgress == updateLog[Len(updateLog)]

\* floor(progress * (n - 1)) for progress = num / ProgressDen
FloorScaled(num) == (num * (Len(frames) - 1)) \div ProgressDen

Clamp(i, lo, hi) == IF i < lo THEN lo ELSE IF i > hi THEN hi ELSE i

InRange(i) == i >= 0 /\ i <= Len(frames) - 1

NoLoadPending ==
  \A pid \in 1..Len(loads) : loads[pid].state \notin {"loading", "decoding"}

TwoIdenticalUpdates ==
  /\ Len(frames) > 0
  /\ Len(updateLog) = 2
  /\ updateLog[1] = updateLog[2]
  /\ resizes = 0

\* C12 as stated, for p in [0,1]: on a controller with a non-empty frame
\* list, two consecutive update(p) calls with identical p have triggered,
\* once no load is pending any more, exactly one paint.
C12_Original_ExactlyOnePaint ==
  (/\ TwoIdenticalUpdates
   /\ LastProgress >= 0 /\ LastProgress <= ProgressDen
   /\ ~isDestroyed
   /\ NoLoadPending) => paints = 1

\* C12 as amended: two consecutive update(p) calls with identical p trigger
\* at most one paint, of the frame for p, at once or deferred to its load; 
\* exactly one once that frame's load has succeeded and floor(p*(n-1)) is an
\* index of the list; the second call paints nothing, attaches no deferred
\* paint and leaves the target unchanged.
C12_RepeatedUpdateIdempotent ==
  /\ [](TwoIdenticalUpdates =>
          /\ paints <= 1
          /\ Len(thens) <= 1
          /\ paints = 1 => (thens = <<>> /\ InRange(FloorScaled(LastProgress)))
          /\ (~isDestroyed /\ canvas # -1) => canvas = FloorScaled(LastProgress)
          /\ (/\ ~isDestroyed
              /\ InRange(FloorScaled(LastProgress))
              /\ \E pid \in 1..Len(loads) :
                   /\ loads[pid].src = frames[FloorScaled(LastProgress) + 1]
                   /\ loads[pid].state = "fulfilled")
               => (paints = 1 /\ canvas = FloorScaled(LastProgress)))
  /\ [][(/\ UpdateReturns
         /\ Len(frames) > 0
         /\ updateLog # <<>>
         /\ LastProgress' = LastProgress)
          => /\ paints' = paints
             /\ canvas' = canvas
             /\ thens' = thens
             /\ currentFrameIndex' = currentFrameIndex]_vars

\* update(1) twice on a list of four frames: frame 3 was painted once
C12_Witness ==
  /\ Len(frames) = 4
  /\ updateLog = <<2, 2>>
  /\ ~isDestroyed
  /\ resizes = 0
  /\ paints = 1
  /\ canvas = 3
  /\ thens = <<>>

\* C13 as stated: for n >= 1 frames and any progress passed to update the
\* targeted index is clamp(floor(progress*(n-1)), 0, n-1); update is a
\* no-op when the frame list is empty.
C13_Original_IndexClamped ==
  [][UpdateReturns =>
       IF Len(frames) = 0
       THEN UNCHANGED <<imageCache, loadingPromises, loads, thens, canvas,
                        paints, currentFrameIndex>>
       ELSE ~isDestroyed =>
              currentFrameIndex' =
                 Clamp(FloorScaled(LastProgress'), 0, Len(frames) - 1)]_vars

\* C13 as amended: for n >= 1 frames the index update targets is
\* floor(progress*(n-1)), unclamped; it lies in 0..n-1 for every progress
\* in [0,1]; a target outside 0..n-1 is recorded and paints nothing; update
\* is a no-op when the frame list is empty.
C13_IndexFloorUnclamped ==
  [][UpdateReturns =>
       IF Len(frames) = 0
       THEN UNCHANGED <<imageCache, loadingPromises, loads, thens, canvas,
                        paints, currentFrameIndex>>
       ELSE ~isDestroyed =>
              /\ currentFrameIndex' = FloorScaled(LastProgress')
              /\ (LastProgress' >= 0 /\ LastProgress' <= ProgressDen)
                   => InRange(currentFrameIndex')
              /\ ~InRange(currentFrameIndex')
                   => (paints' = paints /\ canvas' = canvas
                         /\ thens' = thens)]_vars

\* update(0.5) on four frames targets index floor(1.5) = 1
C13_Witness ==
  /\ Len(frames) = 4
  /\ ~isDestroyed
  /\ updateLog = <<1>>
  /\ currentFrameIndex = 1

\* the callbacks drawFrame attached to the promise of load pid
Waiting(pid) == {k \in 1..Len(thens) : thens[k].pid = pid}

LoadResolves(pid) ==
  loads[pid].state # "fulfilled" /\ loads'[pid].state = "fulfilled"

\* C14: an update whose target frame is not cached paints nothing at that
\* time; when the in-flight load of such a frame resolves the frame is
\* painted if and only if its index is still the current target, so the
\* completion of a load never paints an index that is no longer current.
C14_DeferredPaintOnlyIfCurrent ==
  [][/\ (/\ UpdateReturns
         /\ ~isDestroyed
         /\ Len(frames) > 0
         /\ InRange(FloorScaled(LastProgress'))
         /\ frames[FloorScaled(LastProgress') + 1] \notin DOMAIN imageCache)
          => (paints' = paints /\ canvas' = canvas)
     /\ \A pid \in 1..Len(loads) :
          LoadResolves(pid) =>
            LET due == {k \in Waiting(pid) :
                          thens[k].index = currentFrameIndex}
            IN  /\ paints' = paints + Cardinality(due)
                /\ canvas' = IF due = {} THEN canvas ELSE currentFrameIndex
                /\ \A k \in 1..Len(thens') : thens'[k].pid # pid]_vars

\* lazy, four frames, radius 1: update(1) deferred frame 3 to load 4, then
\* update(0.5) moved the target to frame 1; load 4 resolved and frame 3 was
\* never painted, load 2 resolved and frame 1 was
C14_Witness ==
  /\ strategy = "lazy" /\ bufferSize = 1
  /\ Len(frames) = 4
  /\ updateLog = <<2, 1>>
  /\ resizes = 0
  /\ ~isDestroyed
  /\ Len(loads) = 4
  /\ loads[4].state = "fulfilled"
  /\ paints = 1
  /\ canvas = 1

\* C15: after destroy() the cache and the load-tracking map are empty and
\* stay empty and the surface stays clear: no later load completion,
\* update call or resize call adds a cache entry or paints.
C15_DestroyedStaysInert ==
  [][isDestroyed' =>
       /\ imageCache' = EmptyMap
       /\ loadingPromises' = EmptyMap
       /\ canvas' = -1
       /\ isDestroyed => (paints' = paints /\ thens' = thens
                            /\ canvasSize' = canvasSize)]_vars

\* a destroyed controller that had painted, and whose load completed after
\* destroy() and was dropped, after an update and a resize call
C15_Witness ==
  /\ isDestroyed
  /\ paints >= 1
  /\ updates >= 1
  /\ resizes >= 1
  /\ \E pid \in 1..Len(loads) : loads[pid].state = "dropped"
  /\ imageCache = EmptyMap

(***************************************************************************)
(* Properties of the manifest cache (SpecMan, SpecFill)                    *)
(***************************************************************************)
\* C2: after a resolve(Manifest{url}) call has failed, whatever the cause,
\* the manifest cache holds no entry for url: no cached promise is a
\* rejected one.
C2_NoCachedFailure ==
  \A i \in 1..Len(manifestCache) :
     promises[manifestCache[i].pid].state # "rejected"

\* C3: the manifest cache never holds more than 50 entries.
C3_CacheAtMost50 == Len(manifestCache) <= MANIFEST_CACHE_MAX_ENTRIES

SecurePrefix == <<"h", "t", "t", "p", "s", ":", "/", "/">>

PromiseLive(pid) == promises[pid].state \in {"fetching", "reading", "fulfilled"}

C16_OneRequestWhileNonEmpty ==
  /\ Len(rafPending) <= 1
  /\ rafPending # <<>> => callbacks # <<>>

\* C17: on a host animation frame while the Scheduler is active, every
\* registered callback is invoked exactly once, and the next frame is
\* requested whatever the callbacks threw.
C17_EachCallbackOncePerFrame ==
  [][(AnimationFrame /\ isActive)
       => /\ \A cb \in LoopCallbacks :
               (SetHas(callbacks, cb) /\ SetHas(callbacks', cb))
                 => loopCalls'[cb] = 1
          /\ isActive' => rafPending' # <<>>]_vars

\* C18: a Timeline's tick is registered with the Scheduler exactly when the
\* Timeline has a subscriber.
C18_RegisteredIffSubscribed ==
  \A t \in Timelines :
    SetHas(callbacks, t) <=> SetSize(timelines[t].subscribers) > 0

\* the invocations of subscriber s of Timeline t in a log of notifications
NotifiedOf(log, t, s) == SelectSeq(log, LAMBDA e : e.t = t /\ e.s = s)

\* the step is a call of subscribe(s) on Timeline t
SubscribeCalled(t, s) ==
  /\ notified' # <<>>
  /\ notified'[1].t = t
  /\ notified'[1].s = s
  /\ \A cb \in LoopCallbacks : loopCalls'[cb] = 0
  /\ Subscribe(t, s)

\* C19 as stated: subscribe invokes the callback exactly once before it
\* returns, with the Timeline's current progress.
C19_Original_InvokedOnce ==
  [][\A p \in Subscriptions :
       SubscribeCalled(p[1], p[2])
         => LET n == NotifiedOf(notified', p[1], p[2])
            IN  /\ Len(n) = 1
                /\ n[1].progress = timelines[p[1]].currentProgress]_vars

\* C19 as amended: subscribe invokes the callback before it returns, first
\* of all with the Timeline's current progress, for a first and for a later
\* subscriber.  That is the only invocation unless the call registers the
\* tick as the only callback of the Scheduler: the tick the Scheduler runs
\* when it starts then invokes the callback once more, with the new
\* progress, when that differs from the old by more than the threshold.
C19_InvokedFirstWithCurrent ==
  [][\A p \in Subscriptions :
       SubscribeCalled(p[1], p[2])
         => LET n == NotifiedOf(notified', p[1], p[2])
            IN  /\ Len(n) \in {1, 2}
                /\ notified'[1] = n[1]
                /\ n[1].progress = timelines[p[1]].currentProgress
                /\ SetHas(callbacks, p[1]) => Len(n) = 1
                /\ Len(n) = 2
                     => /\ hasWindow
                        /\ callbacks' = <<p[1]>>
                        /\ n[2].progress = timelines'[p[1]].currentProgress
                        /\ Abs(n[2].progress - n[1].progress)
                             > SCROLL_THRESHOLD]_vars

\* a subscribe call invoked its callback with progress 0 and then, from the
\* first tick of the Scheduler, with the progress of the page
C19_Witness ==
  /\ Len(notified) = 2
  /\ notified[1].t = notified[2].t
  /\ notified[1].s = notified[2].s
  /\ notified[1].progress = 0
  /\ notified[2].progress = 500000
  /\ \A cb \in LoopCallbacks : loopCalls[cb] = 0

\* the height of the tracked region a Timeline works with: the height it
\* measured when it last refreshed its cache
TrackedHeight(tl) == tl.cachedRect.height

\* C20: when the tracked height is at most the viewport height, the progress
\* a Timeline tick computes is exactly 1, whatever the live geometry.
C20_NoScrollRangeGivesOne ==
  [][\A t \in Timelines :
       (isActive /\ SetHas(callbacks, t) /\ AnimationFrame)
         => LET r == CalculateProgress(timelines[t], geometry[t])
            IN  TrackedHeight(r.tl) <= r.tl.cachedViewportHeight
                  => r.progress = ProgressOne]_vars

\* p millionths is num / den clamped to [0, 1] and rounded to 6 decimals
IsClampedRounded(p, num, den) ==
  IF num <= 0 THEN p = 0
  ELSE IF num >= den THEN p = ProgressOne
  ELSE /\ 2 * ProgressOne * num - den < 2 * p * den
       /\ 2 * p * den <= 2 * ProgressOne * num + den

\* the step is an animation frame in which the tick of Timeline t runs
FrameTicks(t) ==
  /\ isActive
  /\ SetHas(callbacks, t)
  /\ AnimationFrame

\* the scroll distance and the relative top a tick of t works with: the
\* cache the tick leaves behind, and the live top of the container
ScrollDistAfter(t) ==
  timelines'[t].cachedRect.height - timelines'[t].cachedViewportHeight

RelativeTopAt(t) == geometry[t].top - timelines'[t].cachedOffsetTop

\* the progress the claim expects of a tick of t with a positive distance
ExpectedProgress(t) ==
  LET num == -RelativeTopAt(t)
      den == ScrollDistAfter(t)
      q == (ProgressOne * num) \div den
  IN  CHOOSE p \in {0, ProgressOne, q, q + 1} : IsClampedRounded(p, num, den)

\* C21: every value a Timeline passes to a subscriber lies in [0, 1]; with a
\* positive scroll distance the progress a tick computes is
\* -relativeTop / scrollDistance clamped to [0, 1] and rounded to 6 decimals,
\* relativeTop from the live top and scrollDistance from the cache.
C21_ProgressClampedRounded ==
  /\ [](\A i \in 1..Len(notified) :
          notified[i].progress \in 0..ProgressOne)
  /\ [][\A t \in Timelines :
          (FrameTicks(t) /\ ScrollDistAfter(t) > 0)
            => LET p == ExpectedProgress(t)
               IN  /\ \A i \in 1..Len(notified') :
                        notified'[i].t = t => notified'[i].progress = p
                   /\ IF Abs(p - timelines[t].currentProgress)
                           > SCROLL_THRESHOLD
                      THEN timelines'[t].currentProgress = p
                      ELSE timelines'[t].currentProgress
                             = timelines[t].currentProgress]_vars

\* a tick passed 0.666667 to the subscriber: two thirds, rounded up
C21_Witness ==
  /\ loopCalls["t1"] = 1
  /\ Len(notified) = 1
  /\ notified[1].progress = 666667
  /\ timelines["t1"].currentProgress = 666667
  /\ geometry["t1"].top = -2
  /\ timelines["t1"].cachedRect.height
       - timelines["t1"].cachedViewportHeight = 3

\* C22: a tick notifies the subscribers only if the progress it computes
\* differs from the last notified value by more than 1e-4; otherwise no
\* subscriber is called and the last notified value stays.
C22_NotifyOnlyBeyondThreshold ==
  [][\A t \in Timelines :
       FrameTicks(t)
         => LET r == CalculateProgress(timelines[t], geometry[t])
                n == SelectSeq(notified', LAMBDA e : e.t = t)
            IN  IF Abs(r.progress - timelines[t].currentProgress)
                     > SCROLL_THRESHOLD
                THEN /\ timelines'[t].currentProgress = r.progress
                     /\ Len(n) = SetSize(timelines[t].subscribers)
                     /\ \A i \in 1..Len(n) : n[i].progress = r.progress
                ELSE /\ n = <<>>
                     /\ timelines'[t].currentProgress
                          = timelines[t].currentProgress]_vars

\* a tick computed 0.0001 against a last notified value of 0 and called
\* nobody
C22_Witness ==
  /\ loopCalls["t1"] = 1
  /\ notified = <<>>
  /\ SetSize(timelines["t1"].subscribers) = 1
  /\ timelines["t1"].currentProgress = 0
  /\ ~timelines["t1"].isLayoutDirty
  /\ CalculateProgress(timelines["t1"], geometry["t1"]).progress = 100

\* C23: with several Timelines on the shared Scheduler, removing the last
\* subscriber of one Timeline, or destroying it, leaves every other Timeline
\* registered and ticked on each frame; the loop stops only when the last
\* callback deregisters.
C23_OtherTimelinesKeepTicking ==
  [][/\ \A u \in Timelines :
          (/\ SetHas(callbacks, u)
           /\ SetSize(timelines'[u].subscribers) > 0
           /\ ~Stop(u))
            => SetHas(callbacks', u)
     /\ (isActive /\ rafPending # <<>> /\ AnimationFrame)
          => \A u \in Timelines :
               (SetHas(callbacks, u) /\ SetHas(callbacks', u))
                 => loopCalls'[u] >= 1
     /\ (isActive /\ ~isActive') => callbacks' = <<>>
     /\ (hasWindow /\ callbacks' # <<>>)
          => (isActive' /\ rafPending' # <<>>)]_vars

\* the first Timeline was destroyed and, in the frame that followed, the
\* second one was ticked
C23_Witness ==
  /\ hasWindow
  /\ ~timelines["t1"].observing
  /\ callbacks = <<"t2">>
  /\ SetSize(timelines["t2"].subscribers) = 1
  /\ loopCalls["t2"] = 1
  /\ loopCalls["t1"] = 0
  /\ isActive
  /\ Len(rafPending) = 1

\* the load of src has failed
LoadFailed(ls, src) ==
  \E pid \in 1..Len(ls) : ls[pid].src = src /\ ls[pid].state = "rejected"

\* C24: a frame whose load fails affects only that frame: the failure
\* changes nothing but the state of that load, the failed URL is never
\* loaded again, and no paint ever shows a frame whose load has failed.
C24_FailedLoadIsolated ==
  /\ [](\A pid \in 1..Len(loads) :
          loads[pid].state = "rejected"
            => \A q \in (pid + 1)..Len(loads) : loads[q].src # loads[pid].src)
  /\ [][/\ \A pid \in 1..Len(loads) :
             (loads[pid].state = "loading" /\ loads'[pid].state = "rejected")
               => /\ imageCache' = imageCache
                  /\ loadingPromises' = loadingPromises
                  /\ canvas' = canvas
                  /\ paints' = paints
                  /\ currentFrameIndex' = currentFrameIndex
                  /\ Len(loads') = Len(loads)
                  /\ \A q \in 1..Len(loads) : q # pid => loads'[q] = loads[q]
        /\ paints' > paints
             => ~LoadFailed(loads', frames[canvas' + 1])]_vars

\* the load of one frame has failed and another frame was loaded and painted
C24_Witness ==
  /\ ~isDestroyed
  /\ canvas >= 0
  /\ paints >= 1
  /\ ~LoadFailed(loads, frames[canvas + 1])
  /\ \E i \in 1..Len(frames) : LoadFailed(loads, frames[i])
  /\ \E pid \in 1..Len(loads) :
       /\ loads[pid].state = "rejected"
       /\ loadingPromises[loads[pid].src] = pid

\* the URLs of the active window: those the last ensureFrameWindow call,
\* of the constructor or of update, asked for
ActiveWindow ==
  LET centre == IF updateLog = <<>> THEN 0 ELSE currentFrameIndex
      start == Max({0, centre - bufferSize})
      end == Min({Len(frames) - 1, centre + bufferSize})
  IN  {frames[i + 1] : i \in start..end}

\* C30: in lazy mode a load that completes after its URL has left the
\* active window adds no cache entry (update called with progress in
\* [0, 1]).
C30_LateLoadNotCached ==
  [][\A pid \in 1..Len(loads) :
       (/\ strategy = "lazy"
        /\ \A i \in 1..Len(updateLog) : updateLog[i] \in 0..ProgressDen
        /\ loads[pid].state = "decoding"
        /\ loads'[pid].state = "fulfilled"
        /\ loads[pid].src \notin ActiveWindow)
         => loads[pid].src \notin DOMAIN imageCache']_vars

\* a promise that has settled stays as it is
Settled(pid) == promises[pid].state \in {"fulfilled", "rejected"}

\* C25: a manifest fetch that has not completed within 10,000 ms is
\* cancelled: the resolve fails with the timeout error, which no other
\* failure produces, nothing of the abandoned fetch is processed afterwards,
\* and the cache holds no entry for the URL.
C25_TimeoutCancelsFetch ==
  [][\A pid \in 1..Len(promises) :
       /\ (~Settled(pid) /\ FetchAborted(pid))
            => /\ promises'[pid].state = "rejected"
               /\ promises'[pid].err = "Timeout"
               /\ promises'[pid].value = NoResult
               /\ ~MapHas(manifestCache', promises[pid].url)
               /\ fetchLog' = fetchLog
       /\ (~Settled(pid) /\ FetchFails(pid))
            => promises'[pid].err # "Timeout"
       /\ (Settled(pid) /\ promises[pid].err = "Timeout")
            => promises'[pid] = promises[pid]]_vars

\* the fetch of the first URL timed out and the cache holds no entry for
\* the URL
C25_Witness ==
  /\ Len(promises) >= 1
  /\ promises[1].state = "rejected"
  /\ promises[1].err = "Timeout"
  /\ promises[1].url = ManifestUrl(1)
  /\ ~MapHas(manifestCache, ManifestUrl(1))

\* the size of a raw body in bytes
BodyBytes(sz) == sz.ascii + 2 * sz.two

\* C26: a manifest response body larger than 1,048,576 bytes is rejected
\* with the size error, whatever it contains (it is never parsed); a body of
\* at most 1,048,576 bytes is parsed, so it resolves or fails by its content.
C26_OversizedBodyRejected ==
  (ResDone /\ resSource.type = "manifest")
    => /\ BodyBytes(resSource.size) > MANIFEST_MAX_SIZE_BYTES
            => (~resOut.ok /\ resOut.err = "TooLarge")
       /\ BodyBytes(resSource.size) <= MANIFEST_MAX_SIZE_BYTES
            => /\ resOut.err # "TooLarge"
               /\ resSource.data.json = "syntax"
                    <=> resOut.err = "JsonSyntax"

\* the errors of a document that is not a manifest
ShapeErrors ==
  {"JsonSyntax", "NotObject", "FramesNotStrings", "PatternNotString",
   "BadEnd", "BadStart", "BadPad", "MissingConfig"}

\* a manifest source whose body passed the size check has been resolved
ManifestParsed ==
  /\ ResDone
  /\ resSource.type = "manifest"
  /\ resOut.err # "TooLarge"

\* { frames: list of strings }
FramesShape(d) ==
  d.json = "object" /\ d.framesT = "array" /\ d.framesAllStr

PositiveIntField(t, v) == t = "int" /\ v >= 1

\* { pattern: string, end: int, start?, pad? } as the claim states it
PatternShapeStated(d) ==
  /\ d.json = "object"
  /\ d.framesT # "array"
  /\ d.patternT = "str"
  /\ d.endT = "int"
  /\ d.startT = "undef" \/ PositiveIntField(d.startT, d.start)
  /\ d.padT = "undef" \/ PositiveIntField(d.padT, d.pad)

\* the same with a positive end and a start that may be null
PatternShape(d) ==
  /\ d.json = "object"
  /\ d.framesT # "array"
  /\ d.patternT = "str"
  /\ PositiveIntField(d.endT, d.end)
  /\ d.startT \in {"undef", "null"} \/ PositiveIntField(d.startT, d.start)
  /\ d.padT = "undef" \/ PositiveIntField(d.padT, d.pad)

\* resolve(Pattern{pattern, start, end, pad}) for the fields of a document
AsPatternSource(d, env) ==
  ProcessPatternMode(d.pattern, IF d.startT = "int" THEN d.start ELSE 1,
                     d.end, IF d.padT = "int" THEN d.pad ELSE 0, env)

\* the same frames, or a failure in both cases
SameResult(a, b) ==
  /\ a.ok = b.ok
  /\ a.frames = b.frames
  /\ a.frameCount = b.frameCount

\* C27 as stated: a manifest { frames: list of strings } resolves like the
\* manual source, { pattern: string, end: int, start?, pad? } with start and
\* pad positive integers when present resolves like the pattern source
\* (start defaulting to 1), and every other document fails with a
\* validation error.
C27_Original_ManifestDispatch ==
  ManifestParsed =>
    LET d == resSource.data
    IN  IF FramesShape(d)
        THEN SameResult(resOut, ProcessManualFrames(d.frames, resEnv))
        ELSE IF PatternShapeStated(d)
        THEN SameResult(resOut, AsPatternSource(d, resEnv))
        ELSE ~resOut.ok /\ resOut.err \in ShapeErrors

\* C27: a manifest { frames: list of strings } resolves like the manual
\* source; { pattern: string, end: positive int, start?, pad? }, with start
\* defaulting to 1 when absent or null and start and pad positive integers
\* when present, resolves like the pattern source; every other document
\* fails with a validation error.
C27_ManifestDispatch ==
  ManifestParsed =>
    LET d == resSource.data
    IN  IF FramesShape(d)
        THEN SameResult(resOut, ProcessManualFrames(d.frames, resEnv))
        ELSE IF PatternShape(d)
        THEN SameResult(resOut, AsPatternSource(d, resEnv))
        ELSE ~resOut.ok /\ resOut.err \in ShapeErrors

\* a pattern manifest with a null start and a pad of 2 resolved to the
\* frames 1..3
C27_Witness ==
  /\ ManifestParsed
  /\ PatternShape(resSource.data)
  /\ resSource.data.startT = "null"
  /\ resSource.data.padT = "int"
  /\ resOut.ok
  /\ resOut.frameCount = 3

\* a non-success status, or no JSON content type declared
BadHead(resp) == ~resp.ok \/ resp.ctype # "json"

\* C28: when the response has a non-success status or does not declare a
\* JSON content type, the promise handed to the caller is rejected with the
\* corresponding error, carries no sequence, and never resolves afterwards.
C28_BadResponseFails ==
  [][\A pid \in 1..Len(promises) :
       /\ \A resp \in ManResponses :
            (BadHead(resp) /\ FetchResponds(pid, resp))
              => /\ promises'[pid].state = "rejected"
                 /\ promises'[pid].err =
                      (IF resp.ok THEN "ContentType" ELSE "HttpStatus")
                 /\ promises'[pid].value = NoResult
       /\ (promises[pid].state = "rejected"
             /\ promises[pid].err \in {"HttpStatus", "ContentType"})
            => promises'[pid] = promises[pid]]_vars

\* the caller of the last resolve holds a promise that was rejected because
\* the response declared no JSON content type
C28_Witness ==
  /\ lastCall.pid \in 1..Len(promises)
  /\ promises[lastCall.pid].state = "rejected"
  /\ promises[lastCall.pid].err = "ContentType"
  /\ promises[lastCall.pid].value = NoResult

\* the cap as the claim states it
ExpectedCap(env) ==
  IF env.t = "int" /\ env.v >= 1
  THEN IF env.v <= ABSOLUTE_MAX_FRAMES THEN env.v ELSE ABSOLUTE_MAX_FRAMES
  ELSE DEFAULT_MAX_FRAMES

\* the number of frames a manual or pattern source asks for
Requested ==
  IF resSource.type = "manual" THEN Len(ValidatedManual)
  ELSE resSource.end - PatternStart + 1

\* C29: the effective frame cap is min(v, 8000) when the override v is a
\* positive integer and 2000 when it is absent or invalid: a manual or
\* pattern source resolves only when it asks for no more frames than that,
\* fails for too many frames only when it asks for more, and no sequence
\* has more than 8000 frames.
C29_EffectiveCap ==
  (ResDone /\ resSource.type \in {"manual", "pattern"})
    => /\ resOut.ok => Requested <= ExpectedCap(resEnv)
       /\ resOut.err = "TooManyFrames" => Requested > ExpectedCap(resEnv)
       /\ resOut.frameCount <= ABSOLUTE_MAX_FRAMES

\* with an override of 9000 a pattern of exactly 8000 frames has resolved
C29_Witness ==
  /\ ResDone
  /\ resEnv = EnvInt(9000)
  /\ resSource.type = "pattern"
  /\ Requested = ABSOLUTE_MAX_FRAMES
  /\ resOut.ok
  /\ resOut.frameCount = ABSOLUTE_MAX_FRAMES

\* the URLs of the window [max(0, idx-radius), min(n-1, idx+radius)]
WindowOf(idx) ==
  {frames[i + 1] : i \in Max({0, idx - bufferSize})
                          ..Min({Len(frames) - 1, idx + bufferSize})}

\* the cache lies within the window of idx and every URL of the window is
\* cached or has a load issued for it
WindowRefreshed(cache, promisesOf, idx) ==
  /\ DOMAIN cache \subseteq WindowOf(idx)
  /\ \A src \in WindowOf(idx) :
       src \in DOMAIN cache \/ src \in DOMAIN promisesOf

\* an update call has just returned
UpdateReturned == updates' = updates + 1

\* C31 as stated: in lazy mode the constructor and every update call, also
\* one that leaves the frame index unchanged, leave every cached URL inside
\* the window of the index and every URL of the window cached or loading.
C31_Original_WindowRefreshed ==
  /\ strategy = "lazy" => WindowRefreshed(imageCache, loadingPromises, 0)
  /\ [][(strategy = "lazy" /\ UpdateReturned)
          => WindowRefreshed(imageCache', loadingPromises',
                             FrameIndexOf(updateLog'[Len(updateLog')]))]_vars

\* C31: in lazy mode the constructor and every update call on a controller
\* that has not been destroyed, also a call that leaves the frame index
\* unchanged, leave every cached URL inside the window of the index and
\* every URL of the window cached or with a load issued for it.
C31_LiveWindowRefreshed ==
  /\ strategy = "lazy" => WindowRefreshed(imageCache, loadingPromises, 0)
  /\ [][(strategy = "lazy" /\ ~isDestroyed /\ UpdateReturned)
          => WindowRefreshed(imageCache', loadingPromises',
                             FrameIndexOf(updateLog'[Len(updateLog')]))]_vars

\* a live lazy controller was updated twice with the same progress; a load
\* that completed outside the window is no longer cached
C31_Witness ==
  /\ strategy = "lazy"
  /\ ~isDestroyed
  /\ Len(updateLog) = 2
  /\ updateLog[1] = updateLog[2]
  /\ imageCache # EmptyMap
  /\ \E pid \in 1..Len(loads) :
       /\ loads[pid].state = "fulfilled"
       /\ loads[pid].src \notin DOMAIN imageCache
       /\ loads[pid].src \notin ActiveWindow

\* a load that has neither completed nor failed
InFlight(pid) == loads[pid].state \in {"loading", "decoding"}

\* C32: under either strategy no two loads of the same URL are in flight at
\* the same time.
C32_OneLoadInFlightPerUrl ==
  \A p1, p2 \in 1..Len(loads) :
    (p1 # p2 /\ InFlight(p1) /\ InFlight(p2))
      => loads[p1].src # loads[p2].src

\* a URL whose first load completed and was evicted is loading a second
\* time, and that is its only load in flight
C32_Witness ==
  \E p1, p2 \in 1..Len(loads) :
    /\ p1 < p2
    /\ loads[p1].src = loads[p2].src
    /\ loads[p1].state = "fulfilled"
    /\ InFlight(p2)
    /\ loadingPromises[loads[p2].src] = p2

\* C33: under the eager strategy the constructor issues a load for every
\* frame of the list, and as long as destroy has not been called no step
\* (update, resize, load completion or failure) removes or replaces a cache
\* entry.
C33_EagerKeepsCache ==
  /\ strategy = "eager"
       => /\ \A i \in 1..Len(frames) : frames[i] \in DOMAIN loadingPromises
          /\ \A i \in 1..Len(frames) :
               \E pid \in 1..Len(loads) :
                 loads[pid].src = frames[i] /\ loads[pid].state = "loading"
  /\ [][(strategy = "eager" /\ ~isDestroyed')
          => \A src \in DOMAIN imageCache :
               /\ src \in DOMAIN imageCache'
               /\ imageCache'[src] = imageCache[src]]_vars

\* an eager controller of two frames holds both of them in the cache after
\* two updates and a resize
C33_Witness ==
  /\ strategy = "eager"
  /\ ~isDestroyed
  /\ Len(frames) = 2
  /\ updates = 2
  /\ resizes = 1
  /\ \A i \in 1..Len(frames) : frames[i] \in DOMAIN imageCache

\* the image of a cached URL
CachedLoad(src) == loads[imageCache[src]]

\* the frame the surface shows was drawn from an image whose load has state st
PaintedFrom(st) ==
  \E pid \in 1..Len(loads) :
    loads[pid].src = frames[canvas + 1] /\ loads[pid].state = st

\* C34 as stated: a cached image is fully decoded, an image whose decode
\* failed is not cached, and the painted frame is a decoded one.
C34_Original_OnlyDecodedCached ==
  /\ \A src \in DOMAIN imageCache : CachedLoad(src).decoded
  /\ canvas >= 0
       => \E pid \in 1..Len(loads) :
            loads[pid].src = frames[canvas + 1] /\ loads[pid].decoded

\* C34: a frame enters the cache, and so becomes paintable, only after its
\* image has loaded and its decode has settled; an image whose decode fails
\* is cached and paintable like a decoded one; an image whose load fails is
\* never cached or painted: every paint draws a frame that is in the cache,
\* and the failure of a load caches and paints nothing.
C34_CachedAfterDecodeSettled ==
  /\ [](\A src \in DOMAIN imageCache :
          CachedLoad(src).src = src /\ CachedLoad(src).state = "fulfilled")
  /\ [](canvas >= 0 => PaintedFrom("fulfilled"))
  /\ [](\A pid \in 1..Len(loads) :
          (loads[pid].state = "fulfilled" /\ strategy = "eager"
             /\ ~isDestroyed)
            => loads[pid].src \in DOMAIN imageCache)
  /\ [][/\ paints' # paints
             => /\ canvas' >= 0
                /\ frames[canvas' + 1] \in DOMAIN imageCache'
         /\ \A pid \in 1..Len(loads) :
              (loads[pid].state # "rejected"
                 /\ loads'[pid].state = "rejected")
                => /\ paints' = paints
                   /\ imageCache' = imageCache
                   /\ canvas' = canvas]_vars

\* an image whose decode failed is cached and is the painted frame, while
\* another frame's load has failed
C34_Witness ==
  /\ canvas >= 0
  /\ frames[canvas + 1] \in DOMAIN imageCache
  /\ ~CachedLoad(frames[canvas + 1]).decoded
  /\ \E pid \in 1..Len(loads) : loads[pid].state = "rejected"

\* a setCanvasSize call on a live controller has just returned
ResizeReturned == resizes' = resizes + 1 /\ ~isDestroyed

\* every update so far was called with a progress in [0, 1]
ProgressInRange == \A i \in 1..Len(updateLog) : updateLog[i] \in 0..ProgressDen

\* C36: resize(width, height) on a live controller sets the pixel
\* dimensions of the surface to the given values and repaints the last
\* painted index if there is one; when no frame has been painted yet it
\* paints nothing (update called with progress in [0, 1]).
C36_ResizeRepaintsLastPainted ==
  [][(ResizeReturned /\ ProgressInRange)
       => /\ canvasSize' \in CanvasSizes
          /\ canvas >= 0 => (canvas' = canvas /\ paints' = paints + 1)
          /\ paints = 0 => (canvas' = -1 /\ paints' = paints)]_vars

\* the cached geometry of a Timeline
CachedGeometry(tl) ==
  <<tl.cachedRect, tl.cachedViewportHeight, tl.cachedOffsetTop>>

\* the height of the viewport the container scrolls in
LiveViewportHeight(t) ==
  IF geometry[t].parent = "element" THEN geometry[t].parentHeight
  ELSE innerHeight

\* the cached heights are those of the page
CacheCurrent(tl, t) ==
  /\ tl.cachedRect.has
  /\ tl.cachedRect.height = geometry[t].height
  /\ tl.cachedViewportHeight = LiveViewportHeight(t)

\* C35: a resize of the tracked region, of the viewport or of the ancestor
\* scroll container sets the dirty flag, so that a tick that runs when every
\* resize has been reported works on the current heights; a tick that finds
\* the flag set recomputes the cached geometry and clears the flag, and a
\* tick that finds it clear leaves the cached geometry unchanged.
C35_ResizeInvalidatesGeometry ==
  [][FrameTicks("t1")
       => /\ ~timelines'["t1"].isLayoutDirty
          /\ timelines["t1"].isLayoutDirty
               => CacheCurrent(timelines'["t1"], "t1")
          /\ ~timelines["t1"].isLayoutDirty
               => CachedGeometry(timelines'["t1"])
                    = CachedGeometry(timelines["t1"])
          /\ (~roPending["t1"] /\ ~resizePending)
               => CacheCurrent(timelines'["t1"], "t1")]_vars

\* the progress a tick of the Timeline would compute now
ComputedNow(t) == CalculateProgress(timelines[t], geometry[t]).progress

\* the Timeline has subscribers and its ticks compute the progress v
TicksCompute(t, v) ==
  /\ SetSize(timelines[t].subscribers) > 0
  /\ ComputedNow(t) = v

\* C37: when the progress the ticks of a Timeline compute becomes exactly 1
\* (or exactly 0) and stays there while the Timeline has subscribers, the
\* subscribers are eventually told exactly that value.
C37_EndpointsDelivered ==
  \A v \in {0, ProgressOne} :
    TicksCompute("t1", v)
      ~> (timelines["t1"].currentProgress = v \/ ~TicksCompute("t1", v))

\* the network request of a promise has been issued and has not completed
RequestInFlight(pid) == promises[pid].state \in {"fetching", "reading"}

\* C38: at most one network request is in flight for a manifest URL at any
\* time, also after FIFO eviction has removed an entry whose fetch is still
\* in flight and the same URL is resolved again.
C38_OneRequestPerUrl ==
  \A p, q \in 1..Len(promises) :
     (RequestInFlight(p) /\ RequestInFlight(q)
        /\ promises[p].url = promises[q].url) => p = q

\* destroy has been called on Timeline t: in a page with a window only
\* destroy disconnects the ResizeObserver and removes the resize listener
Destroyed(t) == hasWindow /\ ~timelines[t].observing

\* the step delivers a resize notification: the window's resize event, or
\* what the ResizeObserver of t would be told
ResizeDelivered(t) ==
  \/ resizePending /\ ~resizePending'
  \/ roPending[t] /\ ~roPending'[t]

\* the step is a call of the program or an animation frame: the host's
\* changes of the page and the arming of a callback change hostVars or arms
OperationStep == UNCHANGED <<arms, hostVars>>

EngineTotals == {2, 3}

WheelDeltas == {-1, 1, 2}

TouchYs == {0, 1, 2}

\* an engine and the frame requests of the host
Engine(e, requests) == [engine |-> e, requests |-> requests]

\* the handle requestAnimationFrame returns: one no pending request has
FreshRequest(requests) ==
  CHOOSE id \in 1..(Cardinality(requests) + 1) : id \notin requests

\* clamp(this.totalScroll > 0 ? currentScroll / totalScroll : 0, 0, 1)
EngineProgress(e) ==
  IF e.totalScroll > 0
  THEN Clamp(RoundMillionthsDown(e.currentScroll, e.totalScroll), 0,
             ProgressOne)
  ELSE 0

\* EventScrollEngine.emit
EngineEmit(e, requests) ==
  IF ~e.isActive THEN Engine(e, requests)
  ELSE IF ~e.isTicking
  THEN LET id == FreshRequest(requests)
       IN  Engine([e EXCEPT !.isTicking = TRUE, !.rafId = id],
                  requests \cup {id})
  ELSE Engine(e, requests)

\* the boundary checks and the update of onWheel and onTouchMove
EngineScrollBy(e, requests, deltaY) ==
  IF deltaY < 0 /\ e.currentScroll <= 0 THEN Engine(e, requests)
  ELSE IF deltaY > 0 /\ e.currentScroll >= e.totalScroll
  THEN Engine(e, requests)
  ELSE EngineEmit([e EXCEPT !.currentScroll =
                              Clamp(@ + deltaY, 0, e.totalScroll)],
                  requests)

\* a start call follows a stop call, and input has moved the position since
PhaseAfterStart == IF engPhase = "new" THEN "started" ELSE "restarted"

PhaseAfterInput(e) ==
  IF engPhase \in {"restarted", "moved"}
       /\ e.currentScroll # engine.currentScroll
  THEN "moved" ELSE engPhase

\* EventScrollEngine.start
EngineStart ==
  /\ IF engine.isActive
     THEN UNCHANGED <<engine, engRequests, engPhase>>
     ELSE LET r == EngineEmit([engine EXCEPT !.isActive = TRUE], engRequests)
          IN  /\ engine' = r.engine
              /\ engRequests' = r.requests
              /\ engPhase' = PhaseAfterStart
  /\ UNCHANGED <<engDelivered, resVars, ctlVars, manVars, loopVars>>

\* EventScrollEngine.stop
EngineStop ==
  /\ IF ~engine.isActive
     THEN UNCHANGED <<engine, engRequests, engPhase>>
     ELSE /\ engine' = [engine EXCEPT !.isActive = FALSE, !.rafId = 0]
          /\ engRequests' = engRequests \ {engine.rafId}
          /\ engPhase' = "stopped"
  /\ UNCHANGED <<engDelivered, resVars, ctlVars, manVars, loopVars>>

\* EventScrollEngine.onWheel; the listener is attached between start and
\* stop
EngineOnWheel(deltaY) ==
  /\ engine.isActive
  /\ LET r == EngineScrollBy(engine, engRequests, deltaY)
     IN  /\ engine' = r.engine
         /\ engRequests' = r.requests
         /\ engPhase' = PhaseAfterInput(r.engine)
  /\ UNCHANGED <<engDelivered, resVars, ctlVars, manVars, loopVars>>

\* EventScrollEngine.onTouchStart
EngineOnTouchStart(y) ==
  /\ engine.isActive
  /\ engine' = [engine EXCEPT !.touchStartY = y]
  /\ UNCHANGED <<engRequests, engDelivered, engPhase, resVars, ctlVars,
                 manVars, loopVars>>

\* EventScrollEngine.onTouchMove
EngineOnTouchMove(y) ==
  /\ engine.isActive
  /\ LET r == EngineScrollBy([engine EXCEPT !.touchStartY = y], engRequests,
                             engine.touchStartY - y)
     IN  /\ engine' = r.engine
         /\ engRequests' = r.requests
         /\ engPhase' = PhaseAfterInput(r.engine)
  /\ UNCHANGED <<engDelivered, resVars, ctlVars, manVars, loopVars>>

\* the host runs a requested frame: the function emit handed to
\* requestAnimationFrame
EngineFrame ==
  /\ \E id \in engRequests : engRequests' = engRequests \ {id}
  /\ engDelivered' = EngineProgress(engine)
  /\ engine' = [engine EXCEPT !.isTicking = FALSE, !.rafId = 0]
  /\ UNCHANGED <<engPhase, resVars, ctlVars, manVars, loopVars>>

\* SpecEngine: one engine that is started, stopped and started again while
\* the user turns the wheel and drags
InitEngine ==
  /\ engine \in {NewEngine(total) : total \in EngineTotals}
  /\ engRequests = {}
  /\ engDelivered = NoProgress
  /\ engPhase = "new"
  /\ ResIdle
  /\ CtlIdle
  /\ ManIdle
  /\ LoopIdle

NextEngine ==
  \/ EngineStart
  \/ EngineStop
  \/ \E deltaY \in WheelDeltas : EngineOnWheel(deltaY)
  \/ \E y \in TouchYs : EngineOnTouchStart(y)
  \/ \E y \in TouchYs : EngineOnTouchMove(y)
  \/ EngineFrame

SpecEngine == InitEngine /\ [][NextEngine]_vars

\* SpecEngineLive: the host runs every frame that stays requested
SpecEngineLive == SpecEngine /\ WF_vars(EngineFrame)

\* the callback has not been given the progress of the engine's position
Undelivered == engDelivered # EngineProgress(engine)

\* C40: after stop() followed by start(), in any state, a wheel or touch
\* input that changes the scroll position is eventually followed by an
\* invocation of the callback with the updated progress (unless the engine
\* is stopped again).
C40_InputDeliveredAfterRestart ==
  (engPhase = "moved" /\ Undelivered)
    ~> (~Undelivered \/ engPhase # "moved")

====
